---- MODULE Spec2Model ----
(***************************************************************************)
(* A state-machine model of bootc's installer (lib/src/install.rs and      *)
(* lib/src/install/baseline.rs): the two entry points `install` and        *)
(* `install_to_filesystem`, the preflight `prepare_install`, the disk      *)
(* provisioner `install_create_rootfs`, the deployment orchestrator        *)
(* `initialize_ostree_root_from_self`, and `finalize_filesystem`.          *)
(*                                                                         *)
(* One run of the program is one behaviour.  Every call to a collaborator  *)
(* (an external tool, a mount, a label, a query of the host) is one step;  *)
(* its answer, and whether it fails, is drawn when the call is made.  A    *)
(* command-line option is drawn by the step that first reads it, or when   *)
(* the function that takes it is called.  `trace`                          *)
(* is the history of collaborator calls, in program order; when one of the *)
(* three preparing phases (prepare_install, install_create_rootfs, the     *)
(* validation of install_to_filesystem) returns Ok, its calls, which all   *)
(* succeeded, are folded into one entry that names the phase.  Locals are  *)
(* reset when their function returns.                                      *)
(*                                                                         *)
(* Text that the program splits or concatenates (mount sources, kernel     *)
(* arguments, fstab lines) is a sequence of one-character strings.         *)
(***************************************************************************)
EXTENDS Integers, Sequences, FiniteSets, TLC

\* ------------------------------------------------------------------ bounds
\* Child partitions that list_dev may report.
MaxChildren == 2
\* Entries directly in the target root (install-to-filesystem).
MaxRootEntries == 3
\* Entries in the target's boot directory.
MaxBootEntries == 2
\* Length of the parent chain above the root filesystem's source device.
MaxParents == 2
\* Length of a text given to MountSpec::from_str.
MaxTextLen == 9

\* --------------------------------------------------------------- constants
STATEROOT_DEFAULT == "default"
BOOT == "boot"
LOST_AND_FOUND == "lost+found"
EFI_DIR == "efi"
RW_KARG == <<"r", "w">>
AUTO == <<"a", "u", "t", "o">>
BOOTC_ALEPH_PATH == ".bootc-aleph.json"
BOOTPN == 3
ROOTPN == 4
EFIPN == 2
BOOTPN_SIZE_MB == 510
EFIPN_SIZE_MB == 512

\* -------------------------------------------------------------------- text
None == [some |-> FALSE, v |-> <<>>]
Some(x) == [some |-> TRUE, v |-> x]

UpperCase == <<"A", "B", "C", "D", "E", "F", "G", "H", "I", "J", "K", "L", "M",
               "N", "O", "P", "Q", "R", "S", "T", "U", "V", "W", "X", "Y", "Z">>
LowerCase == <<"a", "b", "c", "d", "e", "f", "g", "h", "i", "j", "k", "l", "m",
               "n", "o", "p", "q", "r", "s", "t", "u", "v", "w", "x", "y", "z">>

\* u8::to_ascii_lowercase
to_ascii_lowercase(c) ==
    IF \E i \in 1..Len(UpperCase) : UpperCase[i] = c
    THEN LowerCase[CHOOSE i \in 1..Len(UpperCase) : UpperCase[i] = c]
    ELSE c

\* str::eq_ignore_ascii_case
eq_ignore_ascii_case(a, b) ==
    /\ Len(a) = Len(b)
    /\ \A i \in 1..Len(a) : to_ascii_lowercase(a[i]) = to_ascii_lowercase(b[i])

\* str::split_once(c): the text before and after the first c, if there is one
split_once(s, c) ==
    IF \E i \in 1..Len(s) : s[i] = c
    THEN LET i == CHOOSE k \in 1..Len(s) : s[k] = c /\ \A j \in 1..(k - 1) : s[j] # c
         IN  Some(<<SubSeq(s, 1, i - 1), SubSeq(s, i + 1, Len(s))>>)
    ELSE None

SP == <<" ">>
UUID_EQ == <<"U", "U", "I", "D", "=">>
ROOT_EQ == <<"r", "o", "o", "t", "=">>
BOOT_EQ == <<"b", "o", "o", "t", "=">>
SLASH_BOOT == <<"/", "b", "o", "o", "t">>
DEFAULTS == <<"d", "e", "f", "a", "u", "l", "t", "s">>
SELINUX_0 == <<"s", "e", "l", "i", "n", "u", "x", "=", "0">>

\* --------------------------------------------------------------- MountSpec
\* MountSpec::new
MountSpec_new(src, target) ==
    [source |-> src, target |-> target, fstype |-> AUTO, options |-> None]

\* MountSpec::new_uuid_src
new_uuid_src(uuid, target) == MountSpec_new(UUID_EQ \o uuid, target)

\* get_source_uuid comparing the key with "UUID" as spelled
get_source_uuid_case_sensitive(spec) ==
    LET sp == split_once(spec.source, "=")
    IN  IF sp.some /\ sp.v[1] = <<"U", "U", "I", "D">>
        THEN Some(sp.v[2])
        ELSE None

\* MountSpec::get_source_uuid
get_source_uuid(spec) ==
    LET sp == split_once(spec.source, "=")
    IN  IF sp.some /\ eq_ignore_ascii_case(sp.v[1], <<"u", "u", "i", "d">>)
        THEN Some(sp.v[2])
        ELSE None

\* to_fstab leaving absent options empty
to_fstab_without_default_options(spec) ==
    LET options == IF spec.options.some THEN spec.options.v ELSE <<>>
    IN  spec.source \o SP \o spec.target \o SP \o spec.fstype \o SP \o options
            \o SP \o <<"0">> \o SP \o <<"0">>

\* MountSpec::to_fstab
to_fstab(spec) ==
    LET options == IF spec.options.some THEN spec.options.v ELSE DEFAULTS
    IN  spec.source \o SP \o spec.target \o SP \o spec.fstype \o SP \o options
            \o SP \o <<"0">> \o SP \o <<"0">>

\* require_boot_uuid
require_boot_uuid(spec) == get_source_uuid(spec)

\* char::is_ascii_whitespace: space, tab, line feed, form feed, carriage return
is_ascii_whitespace(c) == c \in {" ", "\t", "\n", "\f", "\r"}

\* str::split_ascii_whitespace: the maximal runs of characters that are not
\* ASCII whitespace, in order
RECURSIVE split_ascii_whitespace(_)
split_ascii_whitespace(s) ==
    IF s = <<>> THEN <<>>
    ELSE IF is_ascii_whitespace(Head(s)) THEN split_ascii_whitespace(Tail(s))
    ELSE LET stops == {i \in 1..Len(s) : is_ascii_whitespace(s[i])}
             n == IF stops = {} THEN Len(s) + 1
                  ELSE CHOOSE i \in stops : \A j \in stops : i <= j
         IN  <<SubSeq(s, 1, n - 1)>> \o split_ascii_whitespace(SubSeq(s, n, Len(s)))

NoMountSpec == [source |-> <<>>, target |-> <<>>, fstype |-> <<>>, options |-> None]
Ok(x) == [ok |-> TRUE, v |-> x, msg |-> ""]
Err(msg) == [ok |-> FALSE, v |-> NoMountSpec, msg |-> msg]

\* from_str with a target that may be left out
from_str_target_optional(s) ==
    LET parts == split_ascii_whitespace(s)
        source == IF Len(parts) >= 1 THEN parts[1] ELSE <<>>
    IN  IF source = <<>>
        THEN Err("Invalid empty mount specification")
        ELSE Ok([source |-> source,
                 target |-> IF Len(parts) >= 2 THEN parts[2] ELSE <<>>,
                 fstype |-> IF Len(parts) >= 3 THEN parts[3] ELSE AUTO,
                 options |-> IF Len(parts) >= 4 THEN Some(parts[4]) ELSE None])

\* install.rs:240-261, MountSpec::from_str: the first four parts of the text;
\* parts after the fourth are not looked at
from_str(s) ==
    LET parts == split_ascii_whitespace(s)
        source == IF Len(parts) >= 1 THEN parts[1] ELSE <<>>
    IN  IF source = <<>>
        THEN Err("Invalid empty mount specification")
        ELSE IF Len(parts) < 2
        THEN Err("Missing target in mount specification")
        ELSE Ok([source |-> source,
                 target |-> parts[2],
                 fstype |-> IF Len(parts) >= 3 THEN parts[3] ELSE AUTO,
                 options |-> IF Len(parts) >= 4 THEN Some(parts[4]) ELSE None])

\* ------------------------------------------------------------------- state
VARIABLES
    entry,   \* the CLI verb of this run: "install" or "install_to_filesystem"
    pc,      \* the program's position
    host,    \* what outlives a re-exec: mounts, namespace, guard environment
    trace,   \* collaborator calls so far: [op, arg, ok]
    result,  \* "running", "ok" or "err"
    err,     \* the error the run ended with: [msg, name]
    notice,  \* whether installation_complete() has printed
    state,   \* struct State, being gathered by prepare_install until built
    rootfs,  \* struct RootSetup, once one exists
    blk,     \* locals of install_create_rootfs
    tgt,     \* install_to_filesystem: the target tree and the function's locals
    ost,     \* locals of install_to_filesystem_impl and
             \* initialize_ostree_root_from_self, and the deployment they write
    mnt      \* a MountSpec text and what from_str, to_fstab and
             \* get_source_uuid make of it (specification MountSpecSpec only)

vars == <<entry, pc, host, trace, result, err, notice, state, rootfs, blk, tgt, ost, mnt>>

NoErr == [msg |-> "", name |-> ""]

\* struct State (install.rs:162), with the locals prepare_install gathers it from
NoState ==
    [built |-> FALSE,
     pid |-> "",
     container_info |-> [engine |-> "", imageid |-> ""],
     source_imageref |-> [transport |-> "", name |-> ""],
     source_digest |-> "",
     srcdata_selinux |-> FALSE,
     host_selinux |-> FALSE,
     override_disable_selinux |-> FALSE]

\* struct RootSetup (install.rs:473); `held` is FALSE before construction and
\* after drop(rootfs), when rootfs_fd is closed
NoRootSetup ==
    [held |-> FALSE, device |-> "", rootfs |-> "",
     boot |-> MountSpec_new(<<>>, <<>>), kargs |-> <<>>]

\* the locals of install_create_rootfs (baseline.rs:159), as far as a later
\* step reads them
NoBlk ==
    [children |-> <<>>, wipe |-> FALSE, i |-> 0, device |-> "", root_size |-> None,
     sgdisk |-> <<>>, espdev |-> None, boot_uuid |-> <<>>, root_uuid |-> <<>>]

\* install_to_filesystem (install.rs:765): the target tree as the process sees
\* it (root and boot list the entries in the order the directory yields them)
\* and the function's locals
NoTgt ==
    [open |-> FALSE, root |-> <<>>, boot |-> <<>>, boot_mounted |-> FALSE,
     wipe |-> FALSE, inspect_uuid |-> None, root_mount_spec |-> <<>>,
     boot_uuid |-> <<>>, source |-> 0, height |-> 0, parents |-> <<>>,
     lookups |-> 0]

\* an ostree_container::OstreeImageReference; `digest` is the digest the name
\* carries after an @, "" when it carries none
NoImgRef == [sigverify |-> "", transport |-> "", name |-> "", digest |-> ""]

\* the deployment that ostree_container::deploy::deploy made: its stateroot
\* and kernel arguments
NoDeployed ==
    [done |-> FALSE, kargs |-> <<>>, stateroot |-> "", target_imgref |-> NoImgRef]

\* install.rs:287: state.target_opts, as initialize_ostree_root_from_self
\* reads them
NoTargetOpts ==
    [target_no_signature_verification |-> FALSE, target_ostree_remote |-> None,
     target_imgref |-> None, target_transport |-> ""]

\* the locals of install_to_filesystem_impl (install.rs:645) and
\* initialize_ostree_root_from_self (install.rs:281), and what they wrote:
\* the temporary OCI directory, the deployment, its etc/fstab, the aleph
\* file, the boot UUID given to the bootloader installer
NoOst ==
    [i |-> 0,
     ignition_file |-> FALSE,
     target_opts |-> NoTargetOpts,
     target_imgref |-> NoImgRef,
     src_imageref |-> NoImgRef,
     temporary_dir |-> "none",
     oci_content |-> "",
     deployed |-> NoDeployed,
     fstab |-> None,
     aleph |-> None,
     aleph_file |-> None,
     bootupd_uuid |-> None]

\* what a re-exec passes on: the mount namespace and its /tmp, the guard in
\* the environment, and the command line, of which disable_selinux is
\* "unread" until the program reads --disable-selinux, then "given" or "absent"
NoHost ==
    [tmp |-> "unread", unshared |-> FALSE, guardenv |-> FALSE,
     disable_selinux |-> "unread"]

\* install.rs:198-204: a text, the way it is made into a MountSpec (from_str,
\* new, new_uuid_src), the MountSpec, its fstab line and what from_str makes of that line, and
\* its source UUID
NoMnt ==
    [via |-> "", text |-> <<>>, spec |-> Err(""), fstab |-> <<>>, again |-> Err(""),
     uuid |-> None]

Entries == {"install", "install_to_filesystem"}

Init ==
    /\ entry \in Entries
    /\ pc = "prepare_install"
    /\ host = NoHost
    /\ trace = <<>>
    /\ result = "running"
    /\ err = NoErr
    /\ notice = FALSE
    /\ state = NoState
    /\ rootfs = NoRootSetup
    /\ blk = NoBlk
    /\ tgt = NoTgt
    /\ ost = NoOst
    /\ mnt = NoMnt

\* One collaborator call, appended to the history.
Call(op, arg, ok) == trace' = Append(trace, [op |-> op, arg |-> arg, ok |-> ok])

\* An error returned with `?` up to main: the run ends with it.
Bail(msg, name) ==
    /\ pc' = "exit"
    /\ result' = "err"
    /\ err' = [msg |-> msg, name |-> name]

Goto(l) == pc' = l /\ UNCHANGED <<result, err>>

\* A preparing phase returned Ok: its calls become one entry after the
\* entries of the `done` phases before it.
Returned(done, phase) ==
    trace' = Append(SubSeq(trace, 1, done), [op |-> phase, arg |-> "", ok |-> TRUE])

\* --------------------------------------------------------- prepare_install
ImageName == "quay.io/example/os:latest"
\* The digest of the image the container was started from.
RunningDigest == "sha256:running"
\* A digest the same name may resolve to in the store at a later time.
OtherDigest == "sha256:retagged"

\* what reading /proc/1/exe may give: an error, a path that is not UTF-8, a
\* path without "systemd" in it, a path with it
Pid1Exes == {"err", "non_utf8", "other", "systemd"}
\* engines and image ids that the container environment may name; of the
\* engines only the first starts with "podman"
Engines == {"podman", "docker"}
ImageIds == {"", "0123abc"}

\* install.rs:584-590: PID 1 must be the host's init
prepare_install_pid1 ==
    /\ pc = "prepare_install"
    /\ \E exe \in Pid1Exes :
        /\ Call("read_link", "/proc/1/exe", exe # "err")
        /\ state' = [state EXCEPT !.pid = exe]
        /\ CASE exe = "err" -> Bail("reading /proc/1/exe", "")
             [] exe = "non_utf8" -> Bail("Non-UTF8 /proc/1/exe", "")
             [] exe = "other" -> Bail("This command must be run with --pid=host", "")
             [] OTHER -> Goto("container_info")
    /\ UNCHANGED <<mnt, entry, host, notice, rootfs, blk, tgt, ost>>

\* prepare_install_container without the check of install.rs:597-599
prepare_install_container_any_imageid ==
    /\ pc = "container_info"
    /\ \E ok \in BOOLEAN, engine \in Engines, imageid \in ImageIds :
        LET container_info == [engine |-> engine, imageid |-> imageid]
        IN  /\ Call("get_container_execution_info", "", ok)
            /\ CASE ~ok -> Bail("get_container_execution_info", "") /\ UNCHANGED state
                 [] ok /\ engine # "podman" ->
                        /\ Bail("Currently this command only supports being executed via podman", "")
                        /\ state' = [state EXCEPT !.container_info = container_info]
                 [] OTHER ->
                        /\ Goto("imageid_to_digest")
                        /\ state' = [state EXCEPT
                                        !.container_info = container_info,
                                        !.source_imageref =
                                            [transport |-> "containers-storage",
                                             name |-> ImageName]]
    /\ UNCHANGED <<mnt, entry, host, notice, rootfs, blk, tgt, ost>>

\* install.rs:593-603: a podman container with a non-empty image id
prepare_install_container ==
    /\ pc = "container_info"
    /\ \E ok \in BOOLEAN, engine \in Engines, imageid \in ImageIds :
        LET container_info == [engine |-> engine, imageid |-> imageid]
        IN  /\ Call("get_container_execution_info", "", ok)
            /\ CASE ~ok -> Bail("get_container_execution_info", "") /\ UNCHANGED state
                 [] ok /\ engine # "podman" ->
                        /\ Bail("Currently this command only supports being executed via podman", "")
                        /\ state' = [state EXCEPT !.container_info = container_info]
                 [] ok /\ engine = "podman" /\ imageid = "" ->
                        /\ Bail("Invalid empty imageid", "")
                        /\ state' = [state EXCEPT !.container_info = container_info]
                 [] OTHER ->
                        /\ Goto("imageid_to_digest")
                        /\ state' = [state EXCEPT
                                        !.container_info = container_info,
                                        !.source_imageref =
                                            [transport |-> "containers-storage",
                                             name |-> ImageName]]
    /\ UNCHANGED <<mnt, entry, host, notice, rootfs, blk, tgt, ost>>

\* install.rs:604-605: the exact digest of the running image
prepare_install_digest ==
    /\ pc = "imageid_to_digest"
    /\ \E ok \in BOOLEAN :
        /\ Call("imageid_to_digest", "", ok)
        /\ IF ok
           THEN Goto("unshare") /\ state' = [state EXCEPT !.source_digest = RunningDigest]
           ELSE Bail("imageid_to_digest", "") /\ UNCHANGED state
    /\ UNCHANGED <<mnt, entry, host, notice, rootfs, blk, tgt, ost>>

\* cli.rs ensure_self_unshared_mount_namespace: enters a private mount
\* namespace unless the process is already in one
ensure_self_unshared_mount_namespace(ok) ==
    IF host.unshared
    THEN UNCHANGED <<host, trace>>
    ELSE /\ Call("unshare", "mount namespace", ok)
         /\ host' = [host EXCEPT !.unshared = ok]

\* install.rs:607-611
prepare_install_unshare ==
    /\ pc = "unshare"
    /\ \E skip \in BOOLEAN :
        IF skip
        THEN Goto("statfs") /\ UNCHANGED <<host, trace>>
        ELSE \E ok \in BOOLEAN :
             /\ ensure_self_unshared_mount_namespace(ok)
             /\ IF ok \/ host.unshared
                THEN Goto("statfs")
                ELSE Bail("ensure_self_unshared_mount_namespace", "")
    /\ UNCHANGED <<mnt, entry, notice, state, rootfs, blk, tgt, ost>>

\* prepare_install_statfs mounting the tmpfs whatever /tmp is
prepare_install_statfs_always_mounts ==
    /\ pc = "statfs"
    /\ \E t \in (IF host.tmp = "unread" THEN {"tmpfs", "overlay"} ELSE {host.tmp}),
          ok \in BOOLEAN :
        /\ Call("statfs", "/tmp", ok)
        /\ IF ~ok
           THEN Bail("statfs", "") /\ UNCHANGED host
           ELSE /\ host' = [host EXCEPT !.tmp = t]
                /\ Goto("mount_tmpfs")
    /\ UNCHANGED <<mnt, entry, notice, state, rootfs, blk, tgt, ost>>

\* install.rs:613-615: is /tmp a tmpfs?
prepare_install_statfs ==
    /\ pc = "statfs"
    /\ \E t \in (IF host.tmp = "unread" THEN {"tmpfs", "overlay"} ELSE {host.tmp}),
          ok \in BOOLEAN :
        /\ Call("statfs", "/tmp", ok)
        /\ IF ~ok
           THEN Bail("statfs", "") /\ UNCHANGED host
           ELSE /\ host' = [host EXCEPT !.tmp = t]
                /\ Goto(IF t = "tmpfs" THEN "gather_source_data" ELSE "mount_tmpfs")
    /\ UNCHANGED <<mnt, entry, notice, state, rootfs, blk, tgt, ost>>

\* install.rs:616-619
prepare_install_mount_tmpfs ==
    /\ pc = "mount_tmpfs"
    /\ \E ok \in BOOLEAN :
        /\ Call("mount", "tmpfs /tmp", ok)
        /\ IF ok
           THEN Goto("gather_source_data") /\ host' = [host EXCEPT !.tmp = "tmpfs"]
           ELSE Bail("Creating tmpfs on /tmp", "") /\ UNCHANGED host
    /\ UNCHANGED <<mnt, entry, notice, state, rootfs, blk, tgt, ost>>

\* install.rs:502-519, 623: does the source commit carry SELinux labels?
gather_source_data ==
    /\ pc = "gather_source_data"
    /\ \E ok \in BOOLEAN :
        /\ Call("gather_source_data", "", ok)
        /\ IF ok
           THEN /\ Goto("selinux")
                /\ \E selinux \in BOOLEAN :
                     state' = [state EXCEPT !.srcdata_selinux = selinux]
           ELSE Bail("Gathering source data", "") /\ UNCHANGED state
    /\ UNCHANGED <<mnt, entry, host, notice, rootfs, blk, tgt, ost>>

\* selinux_branch honouring the override before it looks at the host
selinux_branch_override_first(srcdata_selinux, host_selinux, override_disable_selinux) ==
    IF srcdata_selinux
    THEN IF override_disable_selinux THEN "override"
         ELSE IF host_selinux THEN "ensure_install"
         ELSE "bail"
    ELSE "none"

\* install.rs:529-554: what reexecute_self_for_selinux_if_needed decides
selinux_branch(srcdata_selinux, host_selinux, override_disable_selinux) ==
    IF srcdata_selinux
    THEN IF host_selinux THEN "ensure_install"
         ELSE IF override_disable_selinux THEN "override"
         ELSE "bail"
    ELSE "none"

\* --disable-selinux as the command line has it: drawn when the program first
\* reads it, the same after a re-exec
DisableSelinuxOpts ==
    IF host.disable_selinux = "unread" THEN BOOLEAN
    ELSE {host.disable_selinux = "given"}

\* install.rs:525-555, called at 624-625 with config_opts.disable_selinux
reexecute_self_for_selinux_if_needed ==
    /\ pc = "selinux"
    /\ \E disable_selinux \in DisableSelinuxOpts :
        /\ host' = [host EXCEPT !.disable_selinux =
                        IF disable_selinux THEN "given" ELSE "absent"]
        /\ IF ~state.srcdata_selinux
           THEN /\ Goto("bind_mount")
                /\ state' = [state EXCEPT !.override_disable_selinux = FALSE]
                /\ UNCHANGED trace
           ELSE \E ok \in BOOLEAN :
               /\ Call("selinux_enabled", "", ok)
               /\ IF ~ok
                  THEN Bail("selinux_enabled", "") /\ UNCHANGED state
                  ELSE \E host_selinux \in BOOLEAN :
                       LET b == selinux_branch(TRUE, host_selinux, disable_selinux)
                       IN  CASE b = "ensure_install" ->
                                   /\ Goto("container_setup_selinux")
                                   /\ state' = [state EXCEPT !.host_selinux = host_selinux]
                             [] b = "override" ->
                                   /\ Goto("bind_mount")
                                   /\ state' = [state EXCEPT
                                                   !.host_selinux = host_selinux,
                                                   !.override_disable_selinux = TRUE]
                             [] OTHER ->
                                   /\ Bail("Host kernel does not have SELinux support, but target enables it by default", "")
                                   /\ state' = [state EXCEPT !.host_selinux = host_selinux]
    /\ UNCHANGED <<mnt, entry, notice, rootfs, blk, tgt, ost>>

\* install.rs:540
container_setup_selinux ==
    /\ pc = "container_setup_selinux"
    /\ \E ok \in BOOLEAN :
        /\ Call("container_setup_selinux", "", ok)
        /\ IF ok THEN Goto("selinux_ensure_install")
                 ELSE Bail("container_setup_selinux", "")
    /\ UNCHANGED <<mnt, entry, host, notice, state, rootfs, blk, tgt, ost>>

\* install.rs:541-542, lsm.rs selinux_ensure_install: re-executes the current
\* process once; the re-executed process finds the guard and carries on.
\* A re-exec starts the program again from main with fresh memory.
selinux_ensure_install ==
    /\ pc = "selinux_ensure_install"
    /\ IF host.guardenv
       THEN /\ Goto("bind_mount")
            /\ state' = [state EXCEPT !.override_disable_selinux = FALSE]
            /\ UNCHANGED <<host, trace>>
       ELSE \E ok \in BOOLEAN :
            /\ Call("execve", "self", ok)
            /\ IF ok
               THEN /\ host' = [host EXCEPT !.guardenv = TRUE]
                    /\ Goto("prepare_install")
                    /\ state' = NoState
               ELSE Bail("execve", "") /\ UNCHANGED <<host, state>>
    /\ UNCHANGED <<mnt, entry, notice, rootfs, blk, tgt, ost>>

\* install.rs:263-278, 627-633: overmount /var/tmp with the host's
bind_mount_from_host ==
    /\ pc = "bind_mount"
    /\ \E hack \in BOOLEAN :
        IF hack
        THEN Goto("build_state") /\ UNCHANGED trace
        ELSE \E ok \in BOOLEAN :
             /\ Call("mount", "--bind /var/tmp", ok)
             /\ IF ok THEN Goto("build_state")
                      ELSE Bail("Bind mounting /var/tmp from host", "")
    /\ UNCHANGED <<mnt, entry, host, notice, state, rootfs, blk, tgt, ost>>

\* install.rs:634-642: Arc::new(State { .. }); back in the caller
prepare_install_state ==
    /\ pc = "build_state"
    /\ state' = [state EXCEPT !.built = TRUE, !.pid = "",
                               !.container_info = NoState.container_info,
                               !.srcdata_selinux = FALSE, !.host_selinux = FALSE]
    /\ Goto(IF entry = "install" THEN "list_dev" ELSE "open_root")
    /\ Returned(0, "prepare_install")
    /\ UNCHANGED <<mnt, entry, host, notice, rootfs, blk, tgt, ost>>

prepare_install ==
    \/ prepare_install_pid1
    \/ prepare_install_container
    \/ prepare_install_digest
    \/ prepare_install_unshare
    \/ prepare_install_statfs
    \/ prepare_install_mount_tmpfs
    \/ gather_source_data
    \/ reexecute_self_for_selinux_if_needed
    \/ container_setup_selinux
    \/ selinux_ensure_install
    \/ bind_mount_from_host
    \/ prepare_install_state

\* ---------------------------------------------------- install_create_rootfs
\* opts.device, and the same device seen through the private devtmpfs
Device == "/dev/vda"
MntDir == "/run/bootc/mounts"
DevDir == MntDir \o "/dev"
RelDevice == DevDir \o "/vda"
\* filesystem UUIDs that Uuid::new_v4 or the filesystem inspection may yield
Uuids == {<<"a">>, <<"b">>}
\* --root-size as parse_size_mib reads it: absent, a size in MiB, or malformed
RootSizes == {10240}
RootSizeOpts ==
    {[given |-> FALSE, valid |-> TRUE, mib |-> 0],
     [given |-> TRUE, valid |-> FALSE, mib |-> 0]}
        \cup {[given |-> TRUE, valid |-> TRUE, mib |-> v] : v \in RootSizes}
\* the architectures the crate builds for (baseline.rs:35-38 define EFIPN for
\* these only)
Archs == {"x86_64", "aarch64"}

\* baseline.rs:159-162: called with opts; the device and its child partitions
install_create_rootfs_list_dev ==
    /\ pc = "list_dev"
    /\ \E ok \in BOOLEAN, wipe \in BOOLEAN :
        /\ Call("list_dev", Device, ok)
        /\ IF ok
           THEN /\ Goto("wipe_or_require_empty")
                /\ \E n \in 0..MaxChildren :
                     blk' = [blk EXCEPT !.wipe = wipe,
                                       !.children = [k \in 1..n |-> Device \o ToString(k)]]
           ELSE /\ Bail("Creating rootfs: list_dev", "")
                /\ blk' = [blk EXCEPT !.wipe = wipe]
    /\ UNCHANGED <<mnt, entry, host, notice, state, rootfs, tgt, ost>>

\* install_create_rootfs_check without the refusal of baseline.rs:174-178
install_create_rootfs_check_unguarded ==
    /\ pc = "wipe_or_require_empty"
    /\ IF blk.wipe
       THEN /\ Goto(IF Len(blk.children) > 0 THEN "wipe_child" ELSE "wipe_device")
            /\ blk' = [blk EXCEPT !.i = 1]
       ELSE /\ Goto("mntdir")
            /\ UNCHANGED blk
    /\ UNCHANGED <<mnt, entry, host, trace, notice, state, rootfs, tgt, ost>>

\* the check going on to wipe a device without partitions when no wipe was
\* asked for
install_create_rootfs_check_wipes_unasked ==
    /\ pc = "wipe_or_require_empty"
    /\ IF blk.wipe
       THEN /\ Goto(IF Len(blk.children) > 0 THEN "wipe_child" ELSE "wipe_device")
            /\ blk' = [blk EXCEPT !.i = 1]
       ELSE /\ IF Len(blk.children) > 0
               THEN Bail("Creating rootfs: Detected existing partitions", Device)
               ELSE Goto("wipe_device")
            /\ UNCHANGED blk
    /\ UNCHANGED <<mnt, entry, host, trace, notice, state, rootfs, tgt, ost>>

\* baseline.rs:164-179: with --wipe go on to erase the signatures, else refuse
\* a device that has partitions
install_create_rootfs_check ==
    /\ pc = "wipe_or_require_empty"
    /\ IF blk.wipe
       THEN /\ Goto(IF Len(blk.children) > 0 THEN "wipe_child" ELSE "wipe_device")
            /\ blk' = [blk EXCEPT !.i = 1]
       ELSE /\ IF Len(blk.children) > 0
               THEN Bail("Creating rootfs: Detected existing partitions", Device)
               ELSE Goto("mntdir")
            /\ UNCHANGED blk
    /\ UNCHANGED <<mnt, entry, host, trace, notice, state, rootfs, tgt, ost>>

\* install_create_rootfs_wipe_child without the `?` of baseline.rs:170
install_create_rootfs_wipe_child_unchecked ==
    /\ pc = "wipe_child"
    /\ \E ok \in BOOLEAN :
        /\ Call("wipefs", blk.children[blk.i], ok)
        /\ Goto(IF blk.i < Len(blk.children) THEN "wipe_child" ELSE "wipe_device")
        /\ blk' = [blk EXCEPT !.i = blk.i + 1]
    /\ UNCHANGED <<mnt, entry, host, notice, state, rootfs, tgt, ost>>

\* baseline.rs:167-171: one turn of the loop over device.children
install_create_rootfs_wipe_child ==
    /\ pc = "wipe_child"
    /\ \E ok \in BOOLEAN :
        /\ Call("wipefs", blk.children[blk.i], ok)
        /\ IF ok
           THEN /\ Goto(IF blk.i < Len(blk.children) THEN "wipe_child" ELSE "wipe_device")
                /\ blk' = [blk EXCEPT !.i = blk.i + 1]
           ELSE Bail("Creating rootfs: wipefs", blk.children[blk.i]) /\ UNCHANGED blk
    /\ UNCHANGED <<mnt, entry, host, notice, state, rootfs, tgt, ost>>

\* baseline.rs:172-173
install_create_rootfs_wipe_device ==
    /\ pc = "wipe_device"
    /\ \E ok \in BOOLEAN :
        /\ Call("wipefs", Device, ok)
        /\ IF ok THEN Goto("mntdir") ELSE Bail("Creating rootfs: wipefs", Device)
    /\ UNCHANGED <<mnt, entry, host, notice, state, rootfs, blk, tgt, ost>>

\* baseline.rs:181-187: a fresh /run/bootc/mounts/dev
install_create_rootfs_mntdir ==
    /\ pc = "mntdir"
    /\ \E ok \in BOOLEAN :
        /\ Call("create_dir_all", DevDir, ok)
        /\ IF ok THEN Goto("mount_devtmpfs") ELSE Bail("Creating rootfs: create_dir_all", DevDir)
    /\ UNCHANGED <<mnt, entry, host, notice, state, rootfs, blk, tgt, ost>>

\* baseline.rs:188-192
install_create_rootfs_devtmpfs ==
    /\ pc = "mount_devtmpfs"
    /\ \E ok \in BOOLEAN :
        /\ Call("mount", "devtmpfs " \o DevDir, ok)
        /\ IF ok THEN Goto("strip_prefix") ELSE Bail("Creating rootfs: Mounting devtmpfs", "")
    /\ UNCHANGED <<mnt, entry, host, notice, state, rootfs, blk, tgt, ost>>

\* baseline.rs:194-200: opts.device must lie under /dev/
install_create_rootfs_reldevice ==
    /\ pc = "strip_prefix"
    /\ \E under_dev \in BOOLEAN :
        IF under_dev
        THEN Goto("root_size") /\ blk' = [blk EXCEPT !.device = RelDevice]
        ELSE /\ Bail("Creating rootfs: Absolute device path in /dev/ required", "")
             /\ UNCHANGED blk
    /\ UNCHANGED <<mnt, entry, host, trace, notice, state, rootfs, tgt, ost>>

\* baseline.rs:202-207: opts.root_size, parsed by parse_size_mib
install_create_rootfs_root_size ==
    /\ pc = "root_size"
    /\ \E opt \in RootSizeOpts :
        IF opt.given /\ ~opt.valid
        THEN Bail("Creating rootfs: Parsing root size", "") /\ UNCHANGED blk
        ELSE /\ Goto("mount_points")
             /\ blk' = [blk EXCEPT !.root_size =
                            IF opt.given THEN Some(opt.mib) ELSE None]
    /\ UNCHANGED <<mnt, entry, host, trace, notice, state, rootfs, tgt, ost>>

\* baseline.rs:209-214: the mount points rootfs and boot under mntdir
install_create_rootfs_mount_points ==
    /\ pc = "mount_points"
    /\ \E ok \in BOOLEAN :
        /\ Call("create_dir_all", MntDir \o "/rootfs", ok)
        /\ IF ok THEN Goto("sgdisk") ELSE Bail("Creating rootfs: create_dir_all", MntDir)
    /\ UNCHANGED <<mnt, entry, host, notice, state, rootfs, blk, tgt, ost>>

\* baseline.rs:111-126: the arguments sgdisk_partition adds to the command
sgdisk_partition(sgdisk, n, part, name, typecode) ==
    sgdisk \o <<"-n", ToString(n) \o ":" \o part, "-c", ToString(n) \o ":" \o name>>
           \o (IF typecode.some THEN <<"-t", ToString(n) \o ":" \o typecode.v>> ELSE <<>>)

\* baseline.rs:216-244: the command up to partition 1; None on an architecture
\* that is neither x86_64 nor aarch64
sgdisk_first(arch, device) ==
    LET cmd == <<"sgdisk", "-Z", device, "-U", "R">>
    IN  CASE arch = "x86_64" ->
                Some(sgdisk_partition(cmd, 1, "0:+1M", "BIOS-BOOT",
                                      Some("21686148-6449-6E6F-744E-656564454649")))
          [] arch = "aarch64" ->
                Some(sgdisk_partition(cmd, 1, "0:+1M", "reserved",
                                      Some("8DA63339-0007-60C0-C436-083AC8230908")))
          [] OTHER -> None

\* baseline.rs:266-268: the root partition's size argument
root_size_arg(root_size) ==
    IF root_size.some THEN "0:" \o ToString(root_size.v) \o "M" ELSE "0:0"

\* baseline.rs:246-275: the EFI, boot and root partitions, in that order
sgdisk_rest(cmd, root_size) ==
    LET efi == sgdisk_partition(cmd, EFIPN, "0:+" \o ToString(EFIPN_SIZE_MB) \o "M",
                                "EFI-SYSTEM", Some("C12A7328-F81F-11D2-BA4B-00A0C93EC93B"))
        boot == sgdisk_partition(efi, BOOTPN, "0:+" \o ToString(BOOTPN_SIZE_MB) \o "M",
                                 "boot", None)
    IN  sgdisk_partition(boot, ROOTPN, root_size_arg(root_size), "root",
                         Some("0FC63DAF-8483-4772-8E79-3D69D8477DE4"))

\* baseline.rs:216-276: build the sgdisk command and run it
install_create_rootfs_sgdisk ==
    /\ pc = "sgdisk"
    /\ \E arch \in Archs :
        LET first == sgdisk_first(arch, blk.device)
        IN  IF ~first.some
            THEN /\ Bail("Creating rootfs: Unsupported architecture", arch)
                 /\ UNCHANGED <<trace, blk>>
            ELSE \E ok \in BOOLEAN :
                 /\ Call("sgdisk", blk.device, ok)
                 /\ blk' = [blk EXCEPT
                                !.sgdisk = sgdisk_rest(first.v, blk.root_size),
                                !.espdev = Some(blk.device \o ToString(EFIPN))]
                 /\ IF ok THEN Goto("reread_partition_table")
                          ELSE Bail("Creating rootfs: Initializing partitions", "")
    /\ UNCHANGED <<mnt, entry, host, notice, state, rootfs, tgt, ost>>

\* baseline.rs:278-286
install_create_rootfs_reread ==
    /\ pc = "reread_partition_table"
    /\ \E ok \in BOOLEAN :
        /\ Call("reread_partition_table", blk.device, ok)
        /\ IF ok THEN Goto("udev_settle")
                 ELSE Bail("Creating rootfs: Rereading partition table", "")
    /\ UNCHANGED <<mnt, entry, host, notice, state, rootfs, blk, tgt, ost>>

\* baseline.rs:288
install_create_rootfs_settle ==
    /\ pc = "udev_settle"
    /\ \E ok \in BOOLEAN :
        /\ Call("udev_settle", "", ok)
        /\ IF ok THEN Goto("block_setup") ELSE Bail("Creating rootfs: udev_settle", "")
    /\ UNCHANGED <<mnt, entry, host, notice, state, rootfs, blk, tgt, ost>>

\* baseline.rs:290-294: opts.block_setup
install_create_rootfs_block_setup ==
    /\ pc = "block_setup"
    /\ \E block_setup \in {"direct", "tpm2-luks"} :
        IF block_setup = "direct"
        THEN Goto("mkfs_boot")
        ELSE Bail("Creating rootfs: tpm2-luks is not implemented yet", "")
    /\ UNCHANGED <<mnt, entry, host, trace, notice, state, rootfs, blk, tgt, ost>>

\* baseline.rs:128-156, 299-301: mkfs of the boot partition with a fresh UUID
install_create_rootfs_mkfs_boot ==
    /\ pc = "mkfs_boot"
    /\ \E u \in Uuids, ok \in BOOLEAN :
        /\ Call("mkfs", blk.device \o ToString(BOOTPN), ok)
        /\ IF ok
           THEN Goto("mkfs_root") /\ blk' = [blk EXCEPT !.boot_uuid = u]
           ELSE Bail("Creating rootfs: Initializing /boot", "") /\ UNCHANGED blk
    /\ UNCHANGED <<mnt, entry, host, notice, state, rootfs, tgt, ost>>

\* baseline.rs:303-305: mkfs of the root partition with a fresh UUID
install_create_rootfs_mkfs_root ==
    /\ pc = "mkfs_root"
    /\ \E u \in Uuids, ok \in BOOLEAN :
        /\ Call("mkfs", blk.device \o ToString(ROOTPN), ok)
        /\ IF ok
           THEN Goto("mounts") /\ blk' = [blk EXCEPT !.root_uuid = u, !.i = 1]
           ELSE Bail("Creating rootfs: Creating filesystem", "") /\ UNCHANGED blk
    /\ UNCHANGED <<mnt, entry, host, notice, state, rootfs, tgt, ost>>

\* baseline.rs:312-332: the calls that mount and label root, boot and the ESP,
\* in program order
mount_steps(b) ==
    LET rootdev == b.device \o ToString(ROOTPN)
        bootdev == b.device \o ToString(BOOTPN)
        rootdir == MntDir \o "/rootfs"
        bootdir == rootdir \o "/boot"
        efidir == bootdir \o "/" \o EFI_DIR
    IN  << [op |-> "mount", arg |-> rootdev \o " " \o rootdir],
           [op |-> "lsm_label", arg |-> rootdir],
           [op |-> "open_ambient_dir", arg |-> rootdir],
           [op |-> "create_dir", arg |-> bootdir],
           [op |-> "lsm_label", arg |-> bootdir],
           [op |-> "mount", arg |-> bootdev \o " " \o bootdir],
           [op |-> "lsm_label", arg |-> bootdir] >>
        \o (IF b.espdev.some
            THEN << [op |-> "mkfs.fat", arg |-> b.espdev.v],
                    [op |-> "create_dir", arg |-> efidir],
                    [op |-> "mount", arg |-> b.espdev.v \o " " \o efidir] >>
            ELSE <<>>)

\* install_create_rootfs_mount without the `?` of baseline.rs:312-332
install_create_rootfs_mount_unchecked ==
    /\ pc = "mounts"
    /\ LET steps == mount_steps(blk)
           s == steps[blk.i]
       IN  \E ok \in BOOLEAN :
            /\ Call(s.op, s.arg, ok)
            /\ Goto(IF blk.i < Len(steps) THEN "mounts" ELSE "root_setup")
            /\ blk' = [blk EXCEPT !.i = blk.i + 1]
    /\ UNCHANGED <<mnt, entry, host, notice, state, rootfs, tgt, ost>>

\* baseline.rs:312-332: one of those calls
install_create_rootfs_mount ==
    /\ pc = "mounts"
    /\ LET steps == mount_steps(blk)
           s == steps[blk.i]
       IN  \E ok \in BOOLEAN :
            /\ Call(s.op, s.arg, ok)
            /\ IF ok
               THEN /\ Goto(IF blk.i < Len(steps) THEN "mounts" ELSE "root_setup")
                    /\ blk' = [blk EXCEPT !.i = blk.i + 1]
               ELSE Bail("Creating rootfs: " \o s.op, s.arg) /\ UNCHANGED blk
    /\ UNCHANGED <<mnt, entry, host, notice, state, rootfs, tgt, ost>>

\* install_create_rootfs_return with bootsrc made from the root's UUID
install_create_rootfs_return_root_uuid_twice ==
    /\ pc = "root_setup"
    /\ LET rootarg == ROOT_EQ \o UUID_EQ \o blk.root_uuid
           bootsrc == UUID_EQ \o blk.root_uuid
           bootarg == BOOT_EQ \o bootsrc
       IN  rootfs' = [held |-> TRUE,
                      device |-> blk.device,
                      rootfs |-> MntDir \o "/rootfs",
                      boot |-> MountSpec_new(bootsrc, SLASH_BOOT),
                      kargs |-> <<rootarg, RW_KARG, bootarg>>]
    /\ blk' = NoBlk
    /\ Goto("impl")
    /\ Returned(1, "install_create_rootfs")
    /\ UNCHANGED <<mnt, entry, host, notice, state, tgt, ost>>

\* baseline.rs:306-310, 334-340: the RootSetup handed back to install
\* (install.rs:711-713); the function's locals are gone
install_create_rootfs_return ==
    /\ pc = "root_setup"
    /\ LET rootarg == ROOT_EQ \o UUID_EQ \o blk.root_uuid
           bootsrc == UUID_EQ \o blk.boot_uuid
           bootarg == BOOT_EQ \o bootsrc
       IN  rootfs' = [held |-> TRUE,
                      device |-> blk.device,
                      rootfs |-> MntDir \o "/rootfs",
                      boot |-> MountSpec_new(bootsrc, SLASH_BOOT),
                      kargs |-> <<rootarg, RW_KARG, bootarg>>]
    /\ blk' = NoBlk
    /\ Goto("impl")
    /\ Returned(1, "install_create_rootfs")
    /\ UNCHANGED <<mnt, entry, host, notice, state, tgt, ost>>

\* install.rs:711-713: the worker thread that runs install_create_rootfs ends
\* abnormally inside one of its calls; the first ? of .await?? returns the
\* JoinError
install_create_rootfs_join_error ==
    /\ pc \in {"list_dev", "wipe_child", "wipe_device", "mntdir", "mount_devtmpfs",
               "mount_points", "sgdisk", "reread_partition_table", "udev_settle",
               "mkfs_boot", "mkfs_root", "mounts"}
    /\ Call("spawn_blocking", "install_create_rootfs", FALSE)
    /\ Bail("JoinError", "install_create_rootfs")
    /\ UNCHANGED <<mnt, entry, host, notice, state, rootfs, blk, tgt, ost>>

install_create_rootfs ==
    \/ install_create_rootfs_join_error
    \/ install_create_rootfs_list_dev
    \/ install_create_rootfs_check
    \/ install_create_rootfs_wipe_child
    \/ install_create_rootfs_wipe_device
    \/ install_create_rootfs_mntdir
    \/ install_create_rootfs_devtmpfs
    \/ install_create_rootfs_reldevice
    \/ install_create_rootfs_root_size
    \/ install_create_rootfs_mount_points
    \/ install_create_rootfs_sgdisk
    \/ install_create_rootfs_reread
    \/ install_create_rootfs_settle
    \/ install_create_rootfs_block_setup
    \/ install_create_rootfs_mkfs_boot
    \/ install_create_rootfs_mkfs_root
    \/ install_create_rootfs_mount
    \/ install_create_rootfs_return

\* ---------------------------------------------------- install_to_filesystem
RootPath == "/target"
\* a file name that is not UTF-8
NonUtf8 == "\\xFF"
\* names an entry of the target root, and of its boot directory, may have
RootNames == {LOST_AND_FOUND, BOOT, "etc", NonUtf8}
BootNames == {LOST_AND_FOUND, EFI_DIR, BOOT, "grub2", NonUtf8}

\* the listings of at most max distinct names: what Dir::entries may yield
Listings(names, max) ==
    {l \in UNION {[1..n -> names] : n \in 0..max} :
        \A i, j \in 1..Len(l) : i # j => l[i] # l[j]}

Contains(l, x) == \E i \in 1..Len(l) : l[i] = x
Without(l, x) == SelectSeq(l, LAMBDA e : e # x)

\* what the target's tree may be when the run opens it
Trees ==
    {[root |-> r, boot |-> b, boot_mounted |-> m] :
        r \in Listings(RootNames, MaxRootEntries),
        b \in Listings(BootNames, MaxBootEntries),
        m \in BOOLEAN}

\* require_empty_rootdir_entry without the bail of install.rs:757-759
require_empty_rootdir_entry_lenient(name, boot) ==
    IF name = NonUtf8
    THEN [ok |-> FALSE, msg |-> "Invalid non-UTF8 filename", name |-> name]
    ELSE IF name = BOOT /\ boot # <<>> /\ Head(boot) = NonUtf8
    THEN [ok |-> FALSE, msg |-> "Invalid non-UTF8 filename", name |-> Head(boot)]
    ELSE IF name = BOOT /\ boot # <<>> /\ Head(boot) \notin {LOST_AND_FOUND, EFI_DIR}
    THEN [ok |-> FALSE, msg |-> "Non-empty boot directory", name |-> Head(boot)]
    ELSE [ok |-> TRUE, msg |-> "", name |-> ""]

\* install.rs:735-759: the body of the loop over the entries of the root, for
\* the entry `name`; of the boot directory it reads the first entry only, and
\* its `continue` goes on with the next entry of the root
require_empty_rootdir_entry(name, boot) ==
    IF name = NonUtf8
    THEN [ok |-> FALSE, msg |-> "Invalid non-UTF8 filename", name |-> name]
    ELSE IF name = LOST_AND_FOUND
    THEN [ok |-> TRUE, msg |-> "", name |-> ""]
    ELSE IF name = BOOT
    THEN IF boot = <<>>
         THEN [ok |-> TRUE, msg |-> "", name |-> ""]
         ELSE IF Head(boot) = NonUtf8
         THEN [ok |-> FALSE, msg |-> "Invalid non-UTF8 filename", name |-> Head(boot)]
         ELSE IF Head(boot) \in {LOST_AND_FOUND, EFI_DIR}
         THEN [ok |-> TRUE, msg |-> "", name |-> ""]
         ELSE [ok |-> FALSE, msg |-> "Non-empty boot directory", name |-> Head(boot)]
    ELSE [ok |-> FALSE, msg |-> "Non-empty root filesystem", name |-> name]

\* install.rs:732-762: the error of the first entry of the root, in the order
\* the directory yields them, that the loop body refuses
require_empty_rootdir(root, boot) ==
    LET refused == {i \in 1..Len(root) : ~require_empty_rootdir_entry(root[i], boot).ok}
    IN  IF refused = {}
        THEN [ok |-> TRUE, msg |-> "", name |-> ""]
        ELSE require_empty_rootdir_entry(
                 root[CHOOSE i \in refused : \A j \in refused : i <= j], boot)

\* cap_std_ext remove_all_optional on one entry of the root: everything below
\* the entry is removed, then the entry itself, which the kernel refuses
\* (EBUSY) for a mount point
remove_all_optional(t, name) ==
    IF name = BOOT /\ t.boot_mounted
    THEN [ok |-> FALSE, tree |-> [t EXCEPT !.boot = <<>>]]
    ELSE [ok |-> TRUE,
          tree |-> [t EXCEPT !.root = Without(t.root, name),
                             !.boot = IF name = BOOT THEN <<>> ELSE t.boot]]

\* install.rs:777-781: the loop of the wipe over the entries of the root
RECURSIVE wipe_entries(_, _)
wipe_entries(entries, t) ==
    IF entries = <<>>
    THEN [ok |-> TRUE, tree |-> t]
    ELSE LET r == remove_all_optional(t, Head(entries))
         IN  IF r.ok THEN wipe_entries(Tail(entries), r.tree) ELSE r

SetTree(t) == [tgt EXCEPT !.open = TRUE, !.root = t.root, !.boot = t.boot,
                          !.boot_mounted = t.boot_mounted]

\* install.rs:770-772: open the target root; the tree is what it is
install_to_filesystem_open ==
    /\ pc = "open_root"
    /\ \E ok \in BOOLEAN :
        /\ Call("open_ambient_dir", RootPath, ok)
        /\ IF ok
           THEN /\ Goto("wipe_or_verify")
                /\ \E t \in Trees :
                     /\ ~Contains(t.root, BOOT) => (t.boot = <<>> /\ ~t.boot_mounted)
                     /\ tgt' = SetTree(t)
           ELSE Bail("Opening target root directory", RootPath) /\ UNCHANGED tgt
    /\ UNCHANGED <<mnt, entry, host, notice, state, rootfs, blk, ost>>

\* the wipe with the worker's result not looked at
install_to_filesystem_wipe_result_dropped ==
    /\ pc = "wipe_or_verify"
    /\ \E wipe \in BOOLEAN :
        IF wipe
        THEN \E io \in BOOLEAN :
             LET r == wipe_entries(tgt.root, tgt)
             IN  IF ~io
                 THEN /\ Call("try_clone", RootPath, FALSE)
                      /\ tgt' = [tgt EXCEPT !.wipe = TRUE]
                      /\ Bail("try_clone", RootPath)
                 ELSE /\ Call("remove_all_optional", RootPath, r.ok)
                      /\ tgt' = [SetTree(r.tree) EXCEPT !.wipe = TRUE]
                      /\ Goto("inspect_root")
        ELSE LET r == require_empty_rootdir(tgt.root, tgt.boot)
             IN  /\ UNCHANGED <<trace, tgt>>
                 /\ IF r.ok THEN Goto("inspect_root")
                            ELSE Bail("Verifying empty rootfs: " \o r.msg, r.name)
    /\ UNCHANGED <<mnt, entry, host, notice, state, rootfs, blk, ost>>

\* install.rs:773-786: with --wipe remove every entry, else require an empty
\* root
install_to_filesystem_wipe ==
    /\ pc = "wipe_or_verify"
    /\ \E wipe \in BOOLEAN :
        IF wipe
        THEN \E io \in BOOLEAN :
             LET r == wipe_entries(tgt.root, tgt)
             IN  IF ~io
                 THEN /\ Call("try_clone", RootPath, FALSE)
                      /\ tgt' = [tgt EXCEPT !.wipe = TRUE]
                      /\ Bail("try_clone", RootPath)
                 ELSE /\ Call("remove_all_optional", RootPath, r.ok)
                      /\ tgt' = [SetTree(r.tree) EXCEPT !.wipe = TRUE]
                      /\ IF r.ok THEN Goto("inspect_root")
                                 ELSE Bail("remove_all_optional: Device or resource busy",
                                           RootPath \o "/" \o BOOT)
        ELSE LET r == require_empty_rootdir(tgt.root, tgt.boot)
             IN  /\ UNCHANGED <<trace, tgt>>
                 /\ IF r.ok THEN Goto("inspect_root")
                            ELSE Bail("Verifying empty rootfs: " \o r.msg, r.name)
    /\ UNCHANGED <<mnt, entry, host, notice, state, rootfs, blk, ost>>

\* install.rs:773-783: with --wipe, the worker thread that removes the entries
\* ends abnormally, before or after entries were removed; the first ? of
\* .await?? returns the JoinError
install_to_filesystem_wipe_join_error ==
    /\ pc = "wipe_or_verify"
    /\ Call("spawn_blocking", "remove_all_optional", FALSE)
    /\ \E removed \in BOOLEAN :
         tgt' = [(IF removed THEN SetTree(wipe_entries(tgt.root, tgt).tree) ELSE tgt)
                    EXCEPT !.wipe = TRUE]
    /\ Bail("JoinError", "remove_all_optional")
    /\ UNCHANGED <<mnt, entry, host, notice, state, rootfs, blk, ost>>

\* install.rs:788-789: the source device and UUID of the root filesystem
install_to_filesystem_inspect_root ==
    /\ pc = "inspect_root"
    /\ \E ok \in BOOLEAN :
        /\ Call("inspect_filesystem", RootPath, ok)
        /\ IF ok
           THEN /\ Goto("root_mount_spec")
                /\ \E u \in {None} \cup {Some(x) : x \in Uuids}, h \in 0..MaxParents :
                     tgt' = [tgt EXCEPT !.inspect_uuid = u, !.source = h,
                                        !.height = h]
           ELSE Bail("inspect_filesystem", RootPath) /\ UNCHANGED tgt
    /\ UNCHANGED <<mnt, entry, host, notice, state, rootfs, blk, ost>>

\* values of --root-mount-spec and --boot-mount-spec
RootSpecOpts == {None, Some(<<"L", "A", "B", "E", "L", "=", "r">>)}
BootSpecOpts ==
    {None,
     Some(<<"U", "U", "I", "D", "=", "c">>),
     Some(<<"u", "u", "i", "d", "=", "c">>),
     Some(<<"L", "A", "B", "E", "L", "=", "b">>),
     Some(<<"/", "d", "e", "v", "/", "v", "d", "a", "3">>)}

\* install.rs:791-803: --root-mount-spec, or UUID= and the inspected UUID
install_to_filesystem_root_spec ==
    /\ pc = "root_mount_spec"
    /\ \E opt \in RootSpecOpts :
        IF opt.some
        THEN /\ Goto("verify_boot")
             /\ tgt' = [tgt EXCEPT !.root_mount_spec = opt.v, !.inspect_uuid = None]
        ELSE IF tgt.inspect_uuid.some
        THEN /\ Goto("verify_boot")
             /\ tgt' = [tgt EXCEPT !.root_mount_spec = UUID_EQ \o tgt.inspect_uuid.v,
                                   !.inspect_uuid = None]
        ELSE Bail("No filesystem uuid found in target root", "") /\ UNCHANGED tgt
    /\ UNCHANGED <<mnt, entry, host, trace, notice, state, rootfs, blk, ost>>

\* install_to_filesystem_verify_boot without the comparison of install.rs:815
install_to_filesystem_verify_boot_any_device ==
    /\ pc = "verify_boot"
    /\ \E ok \in BOOLEAN :
        /\ Call("dir_metadata", RootPath, ok)
        /\ IF ~ok THEN Bail("dir_metadata", RootPath)
           ELSE IF ~Contains(tgt.root, BOOT)
           THEN Bail("No /boot directory found in root; this is is currently required", "")
           ELSE Goto("inspect_boot")
    /\ UNCHANGED <<mnt, entry, host, notice, state, rootfs, blk, tgt, ost>>

\* install.rs:805-818: boot must exist and lie on another device than the root
install_to_filesystem_verify_boot ==
    /\ pc = "verify_boot"
    /\ \E ok \in BOOLEAN :
        /\ Call("dir_metadata", RootPath, ok)
        /\ IF ~ok THEN Bail("dir_metadata", RootPath)
           ELSE IF ~Contains(tgt.root, BOOT)
           THEN Bail("No /boot directory found in root; this is is currently required", "")
           ELSE IF ~tgt.boot_mounted
           THEN Bail("/boot must currently be a separate mounted filesystem", "")
           ELSE Goto("inspect_boot")
    /\ UNCHANGED <<mnt, entry, host, notice, state, rootfs, blk, tgt, ost>>

\* install.rs:819-825: the UUID of the boot filesystem
install_to_filesystem_inspect_boot ==
    /\ pc = "inspect_boot"
    /\ \E ok \in BOOLEAN :
        /\ Call("inspect_filesystem", RootPath \o "/" \o BOOT, ok)
        /\ IF ~ok
           THEN Bail("Inspecting /boot", "") /\ UNCHANGED tgt
           ELSE \E u \in {None} \cup {Some(x) : x \in Uuids} :
                IF u.some
                THEN Goto("find_parent_devices") /\ tgt' = [tgt EXCEPT !.boot_uuid = u.v]
                ELSE Bail("No UUID found for /boot", "") /\ UNCHANGED tgt
    /\ UNCHANGED <<mnt, entry, host, notice, state, rootfs, blk, ost>>

\* a device by the number of ancestors it has; DevAt(0) is a whole disk
DevAt(height) == "/dev/block" \o ToString(height)

\* what find_parent_devices may report for a device: its one parent, none for
\* a whole disk, or (device-mapper, RAID) several
ParentsOf(height) ==
    IF height = 0 THEN {<<>>}
    ELSE {<<DevAt(height - 1)>>, <<DevAt(height - 1), "/dev/other">>}

\* install_to_filesystem_parent going on with the first parent when several
\* are reported
install_to_filesystem_parent_first_of_many ==
    /\ pc = "find_parent_devices"
    /\ \E ok \in BOOLEAN :
        /\ Call("find_parent_devices", DevAt(tgt.height), ok)
        /\ IF ~ok
           THEN Bail("find_parent_devices", DevAt(tgt.height)) /\ UNCHANGED tgt
           ELSE \E parents \in ParentsOf(tgt.height) :
                IF Len(parents) = 0
                THEN /\ Goto("build_root_setup")
                     /\ tgt' = [tgt EXCEPT !.lookups = tgt.lookups + 1,
                                           !.parents = parents]
                ELSE /\ Goto("find_parent_devices")
                     /\ tgt' = [tgt EXCEPT !.lookups = tgt.lookups + 1,
                                           !.parents = parents,
                                           !.height = tgt.height - 1]
    /\ UNCHANGED <<mnt, entry, host, notice, state, rootfs, blk, ost>>

\* install_to_filesystem_parent leaving the loop with the parent of the
\* source device
install_to_filesystem_parent_one_level ==
    /\ pc = "find_parent_devices"
    /\ \E ok \in BOOLEAN :
        /\ Call("find_parent_devices", DevAt(tgt.height), ok)
        /\ IF ~ok
           THEN Bail("find_parent_devices", DevAt(tgt.height)) /\ UNCHANGED tgt
           ELSE \E parents \in ParentsOf(tgt.height) :
                CASE Len(parents) = 0 ->
                        /\ Goto("build_root_setup")
                        /\ tgt' = [tgt EXCEPT !.lookups = tgt.lookups + 1,
                                              !.parents = parents]
                  [] Len(parents) = 1 ->
                        /\ Goto("build_root_setup")
                        /\ tgt' = [tgt EXCEPT !.lookups = tgt.lookups + 1,
                                              !.parents = parents,
                                              !.height = tgt.height - 1]
                  [] OTHER ->
                        /\ Bail("Found multiple parent devices; not currently supported",
                                DevAt(tgt.height))
                        /\ tgt' = [tgt EXCEPT !.lookups = tgt.lookups + 1,
                                              !.parents = parents]
    /\ UNCHANGED <<mnt, entry, host, notice, state, rootfs, blk, ost>>

\* install.rs:827-848: one turn of the loop that walks up to the backing
\* device
install_to_filesystem_parent ==
    /\ pc = "find_parent_devices"
    /\ \E ok \in BOOLEAN :
        /\ Call("find_parent_devices", DevAt(tgt.height), ok)
        /\ IF ~ok
           THEN Bail("find_parent_devices", DevAt(tgt.height)) /\ UNCHANGED tgt
           ELSE \E parents \in ParentsOf(tgt.height) :
                CASE Len(parents) = 0 ->
                        /\ Goto("build_root_setup")
                        /\ tgt' = [tgt EXCEPT !.lookups = tgt.lookups + 1,
                                              !.parents = parents]
                  [] Len(parents) = 1 ->
                        /\ Goto("find_parent_devices")
                        /\ tgt' = [tgt EXCEPT !.lookups = tgt.lookups + 1,
                                              !.parents = parents,
                                              !.height = tgt.height - 1]
                  [] OTHER ->
                        /\ Bail("Found multiple parent devices; not currently supported",
                                DevAt(tgt.height))
                        /\ tgt' = [tgt EXCEPT !.lookups = tgt.lookups + 1,
                                              !.parents = parents]
    /\ UNCHANGED <<mnt, entry, host, notice, state, rootfs, blk, ost>>

\* install_to_filesystem_root_setup naming the inspected /boot UUID in the
\* boot= kernel argument, whatever --boot-mount-spec says
install_to_filesystem_root_setup_bootarg_inspected ==
    /\ pc = "build_root_setup"
    /\ \E opt \in BootSpecOpts :
        LET rootarg == ROOT_EQ \o tgt.root_mount_spec
            boot == IF opt.some THEN MountSpec_new(opt.v, SLASH_BOOT)
                    ELSE new_uuid_src(tgt.boot_uuid, SLASH_BOOT)
            bootarg == BOOT_EQ \o new_uuid_src(tgt.boot_uuid, SLASH_BOOT).source
        IN  rootfs' = [held |-> TRUE,
                       device |-> DevAt(tgt.height),
                       rootfs |-> RootPath,
                       boot |-> boot,
                       kargs |-> <<rootarg, RW_KARG, bootarg>>]
    /\ tgt' = NoTgt
    /\ Goto("impl")
    /\ Returned(1, "install_to_filesystem: target validated")
    /\ UNCHANGED <<mnt, entry, host, notice, state, blk, ost>>

\* install.rs:850-867: the boot MountSpec, the kernel arguments, the RootSetup
install_to_filesystem_root_setup ==
    /\ pc = "build_root_setup"
    /\ \E opt \in BootSpecOpts :
        LET rootarg == ROOT_EQ \o tgt.root_mount_spec
            boot == IF opt.some THEN MountSpec_new(opt.v, SLASH_BOOT)
                    ELSE new_uuid_src(tgt.boot_uuid, SLASH_BOOT)
            bootarg == BOOT_EQ \o boot.source
        IN  rootfs' = [held |-> TRUE,
                       device |-> DevAt(tgt.height),
                       rootfs |-> RootPath,
                       boot |-> boot,
                       kargs |-> <<rootarg, RW_KARG, bootarg>>]
    /\ tgt' = NoTgt
    /\ Goto("impl")
    /\ Returned(1, "install_to_filesystem: target validated")
    /\ UNCHANGED <<mnt, entry, host, notice, state, blk, ost>>

install_to_filesystem_prepare ==
    \/ install_to_filesystem_open
    \/ install_to_filesystem_wipe
    \/ install_to_filesystem_wipe_join_error
    \/ install_to_filesystem_inspect_root
    \/ install_to_filesystem_root_spec
    \/ install_to_filesystem_verify_boot
    \/ install_to_filesystem_inspect_boot
    \/ install_to_filesystem_parent
    \/ install_to_filesystem_root_setup

\* ------------------------------------------ initialize_ostree_root_from_self
\* crate::ignition::PLATFORM_METAL_KARG and crate::bootloader::IGNITION_VARIABLE
PLATFORM_METAL_KARG ==
    <<"i", "g", "n", "i", "t", "i", "o", "n", ".", "p", "l", "a", "t", "f", "o", "r", "m",
      ".", "i", "d", "=", "m", "e", "t", "a", "l">>
IGNITION_VARIABLE ==
    <<"$", "i", "g", "n", "i", "t", "i", "o", "n", "_", "f", "i", "r", "s", "t", "b", "o",
      "o", "t">>

\* values of --target-imgref, --target-ostree-remote and --target-transport
TargetImgrefOpts == {None, Some("quay.io/example/target:stable")}
TargetRemoteOpts == {None, Some("fedora")}
TargetTransportOpts == {"registry", "bogus"}

\* the kernel arguments with selinux=0 put in front
install_to_filesystem_impl_kargs_selinux_first ==
    /\ pc = "impl"
    /\ \E ignition_file \in BOOLEAN, nosig \in BOOLEAN, remote \in TargetRemoteOpts,
          imgref \in TargetImgrefOpts, transport \in TargetTransportOpts :
        /\ rootfs' = [rootfs EXCEPT !.kargs =
                        (IF state.override_disable_selinux THEN <<SELINUX_0>> ELSE <<>>)
                        \o rootfs.kargs
                        \o (IF ignition_file
                            THEN <<PLATFORM_METAL_KARG, IGNITION_VARIABLE>> ELSE <<>>)]
        /\ ost' = [ost EXCEPT !.ignition_file = ignition_file,
                      !.target_opts =
                          [target_no_signature_verification |-> nosig,
                           target_ostree_remote |-> remote,
                           target_imgref |-> imgref,
                           target_transport |-> transport]]
    /\ Goto("target_imgref")
    /\ UNCHANGED <<mnt, entry, host, trace, notice, state, blk, tgt>>

\* install.rs:645-661: the kernel arguments added before the deployment, and
\* the call of initialize_ostree_root_from_self with the state and its
\* target options
install_to_filesystem_impl_kargs ==
    /\ pc = "impl"
    /\ \E ignition_file \in BOOLEAN, nosig \in BOOLEAN, remote \in TargetRemoteOpts,
          imgref \in TargetImgrefOpts, transport \in TargetTransportOpts :
        /\ rootfs' = [rootfs EXCEPT !.kargs =
                        rootfs.kargs
                        \o (IF state.override_disable_selinux THEN <<SELINUX_0>> ELSE <<>>)
                        \o (IF ignition_file
                            THEN <<PLATFORM_METAL_KARG, IGNITION_VARIABLE>> ELSE <<>>)]
        /\ ost' = [ost EXCEPT !.ignition_file = ignition_file,
                      !.target_opts =
                          [target_no_signature_verification |-> nosig,
                           target_ostree_remote |-> remote,
                           target_imgref |-> imgref,
                           target_transport |-> transport]]
    /\ Goto("target_imgref")
    /\ UNCHANGED <<mnt, entry, host, trace, notice, state, blk, tgt>>

\* the signature policy, with the remote looked at before the flag
target_sigverify_remote_first(target_no_signature_verification, target_ostree_remote) ==
    IF target_ostree_remote.some THEN "OstreeRemote:" \o target_ostree_remote.v
    ELSE IF target_no_signature_verification THEN "ContainerPolicyAllowInsecure"
    ELSE "ContainerPolicy"

\* install.rs:290-297: the signature policy of the target reference
target_sigverify(target_no_signature_verification, target_ostree_remote) ==
    IF target_no_signature_verification THEN "ContainerPolicyAllowInsecure"
    ELSE IF target_ostree_remote.some THEN "OstreeRemote:" \o target_ostree_remote.v
    ELSE "ContainerPolicy"

\* ostree_container::Transport::try_from
Transports == {"registry", "oci", "oci-archive", "containers-storage", "docker-archive", "dir"}

\* install.rs:287-313: the reference the installed system will follow
initialize_ostree_root_target ==
    /\ pc = "target_imgref"
    /\ LET opts == ost.target_opts
           imgref == opts.target_imgref
           transport == opts.target_transport
           sigverify == target_sigverify(opts.target_no_signature_verification,
                                         opts.target_ostree_remote)
        IN  IF imgref.some
            THEN IF transport \in Transports
                 THEN /\ Goto("ostree_init")
                      /\ ost' = [ost EXCEPT !.i = 1, !.target_imgref =
                                    [sigverify |-> sigverify, transport |-> transport,
                                     name |-> imgref.v, digest |-> ""]]
                 ELSE /\ Bail("Creating ostree deployment: Transport::try_from", transport)
                      /\ UNCHANGED ost
            ELSE /\ Goto("ostree_init")
                 /\ ost' = [ost EXCEPT !.i = 1, !.target_imgref =
                                [sigverify |-> sigverify,
                                 transport |-> state.source_imageref.transport,
                                 name |-> state.source_imageref.name, digest |-> ""]]
    /\ UNCHANGED <<mnt, entry, host, trace, notice, state, rootfs, blk, tgt>>

\* install.rs:315-339: the calls that set up the repository and load the
\* sysroot, in program order
ostree_init_steps(root) ==
    << [op |-> "ostree admin init-fs", arg |-> root],
       [op |-> "ostree config set", arg |-> "sysroot.bootloader none"],
       [op |-> "ostree config set", arg |-> "sysroot.readonly true"],
       [op |-> "ostree admin os-init", arg |-> STATEROOT_DEFAULT],
       [op |-> "lsm_label", arg |-> root \o "/ostree"],
       [op |-> "sysroot.load", arg |-> root] >>

\* install.rs:315-339: one of those calls; the target options are not read
\* after the target reference is made
initialize_ostree_root_init ==
    /\ pc = "ostree_init"
    /\ LET steps == ostree_init_steps(rootfs.rootfs)
           s == steps[ost.i]
       IN  \E ok \in BOOLEAN :
            /\ Call(s.op, s.arg, ok)
            /\ IF ok
               THEN /\ Goto(IF ost.i < Len(steps) THEN "ostree_init" ELSE "skopeo_version")
                    /\ ost' = [ost EXCEPT !.i = ost.i + 1,
                                  !.target_opts = NoTargetOpts]
               ELSE Bail("Creating ostree deployment: " \o s.op, s.arg) /\ UNCHANGED ost
    /\ UNCHANGED <<mnt, entry, host, notice, state, rootfs, blk, tgt>>

\* install.rs:469-470: can this skopeo read containers-storage?
skopeo_supports(major, minor) == major > 1 \/ minor > 10

\* versions `skopeo --version` may report
SkopeoVersions == {<<0, 11>>, <<1, 9>>, <<1, 10>>, <<1, 11>>, <<2, 0>>}

\* crate::utils::digested_pullspec: the image name pinned to a digest
digested_pullspec(name, digest) == name \o "@" \o digest

\* install.rs:341-357, 451-471: ask skopeo for its version; with a new enough
\* skopeo the source is the running image's name pinned to its digest
initialize_ostree_root_source ==
    /\ pc = "skopeo_version"
    /\ \E ok \in BOOLEAN :
        /\ Call("skopeo --version", "", ok)
        /\ IF ~ok
           THEN Bail("Creating ostree deployment: Querying skopeo version", "")
                /\ UNCHANGED ost
           ELSE \E v \in SkopeoVersions :
                IF skopeo_supports(v[1], v[2])
                THEN LET spec == digested_pullspec(state.source_imageref.name,
                                                   state.source_digest)
                     IN  /\ Goto("deploy")
                         /\ ost' = [ost EXCEPT !.src_imageref =
                                        [sigverify |-> "ContainerPolicyAllowInsecure",
                                         transport |-> "containers-storage",
                                         name |-> spec, digest |-> state.source_digest]]
                ELSE Goto("tempdir") /\ UNCHANGED ost
    /\ UNCHANGED <<mnt, entry, host, notice, state, rootfs, blk, tgt>>

TempDir == "/var/tmp/.tmpXXXXXX"

\* install.rs:358-359: a temporary directory under /var/tmp
initialize_ostree_root_tempdir ==
    /\ pc = "tempdir"
    /\ \E ok \in BOOLEAN :
        /\ Call("tempdir_in", "/var/tmp", ok)
        /\ IF ok
           THEN Goto("copy_to_oci") /\ ost' = [ost EXCEPT !.temporary_dir = "exists"]
           ELSE Bail("Creating ostree deployment: tempdir_in", "") /\ UNCHANGED ost
    /\ UNCHANGED <<mnt, entry, host, notice, state, rootfs, blk, tgt>>

\* install.rs:425-449: skopeo copy of src_imageref, as given, into an OCI
\* directory; the copy holds the image the name resolves to in the store at
\* that time
copy_to_oci(src_imageref, dir, ok, resolved) ==
    /\ Call("skopeo copy",
            src_imageref.transport \o ":" \o src_imageref.name \o " oci:" \o dir, ok)
    /\ IF ok
       THEN /\ Goto("deploy")
            /\ ost' = [ost EXCEPT
                          !.oci_content = resolved,
                          !.src_imageref =
                              [sigverify |-> "ContainerPolicyAllowInsecure",
                               transport |-> "oci", name |-> dir, digest |-> ""]]
       ELSE /\ Bail("Creating ostree deployment: Copying to oci", "")
            /\ ost' = [ost EXCEPT !.temporary_dir = "removed"]

\* install.rs:360-369: the fallback for an old skopeo
initialize_ostree_root_copy ==
    /\ pc = "copy_to_oci"
    /\ \E ok \in BOOLEAN, resolved \in {RunningDigest, OtherDigest} :
        copy_to_oci(state.source_imageref, TempDir, ok, resolved)
    /\ UNCHANGED <<mnt, entry, host, notice, state, rootfs, blk, tgt>>

\* the digest of the image a source reference makes deploy import
content_of(src_imageref, oci_content) ==
    IF src_imageref.transport = "oci" THEN oci_content ELSE src_imageref.digest

\* initialize_ostree_root_deploy with a temporary directory that is not
\* removed when the function returns the error (a path kept, not the TempDir)
initialize_ostree_root_deploy_keeps_tempdir ==
    /\ pc = "deploy"
    /\ \E ok \in BOOLEAN :
        /\ Call("deploy", STATEROOT_DEFAULT, ok)
        /\ IF ok
           THEN /\ Goto("drop_temporary_dir")
                /\ ost' = [ost EXCEPT !.deployed =
                              [done |-> TRUE,
                               kargs |-> rootfs.kargs,
                               stateroot |-> STATEROOT_DEFAULT,
                               target_imgref |-> ost.target_imgref]]
           ELSE /\ Bail("Creating ostree deployment: deploy", "")
                /\ UNCHANGED ost
    /\ UNCHANGED <<mnt, entry, host, notice, state, rootfs, blk, tgt>>

\* install.rs:371-389: the deploy operation; on an error the temporary
\* directory goes with the function's locals
initialize_ostree_root_deploy ==
    /\ pc = "deploy"
    /\ \E ok \in BOOLEAN :
        /\ Call("deploy", STATEROOT_DEFAULT, ok)
        /\ IF ok
           THEN /\ Goto("drop_temporary_dir")
                /\ ost' = [ost EXCEPT !.deployed =
                              [done |-> TRUE,
                               kargs |-> rootfs.kargs,
                               stateroot |-> STATEROOT_DEFAULT,
                               target_imgref |-> ost.target_imgref]]
           ELSE /\ Bail("Creating ostree deployment: deploy", "")
                /\ ost' = [ost EXCEPT !.temporary_dir =
                              IF ost.temporary_dir = "exists" THEN "removed"
                              ELSE ost.temporary_dir]
    /\ UNCHANGED <<mnt, entry, host, notice, state, rootfs, blk, tgt>>

\* install.rs:391
initialize_ostree_root_drop_tempdir ==
    /\ pc = "drop_temporary_dir"
    /\ ost' = [ost EXCEPT !.temporary_dir =
                  IF ost.temporary_dir = "exists" THEN "removed" ELSE ost.temporary_dir]
    /\ Goto("sysroot_reload")
    /\ UNCHANGED <<mnt, entry, host, trace, notice, state, rootfs, blk, tgt>>

\* what etc/fstab of the deployed image may hold: no file, or one line
FstabBefore == {None, Some(<< <<"#">> >>)}

\* install.rs:393-400: reload the sysroot and take its first deployment
initialize_ostree_root_reload ==
    /\ pc = "sysroot_reload"
    /\ \E ok \in BOOLEAN :
        /\ Call("sysroot.load", rootfs.rootfs, ok)
        /\ IF ~ok
           THEN Bail("Creating ostree deployment: sysroot.load", "") /\ UNCHANGED ost
           ELSE \E found \in BOOLEAN :
                IF found
                THEN /\ Goto("fstab")
                     /\ \E before \in FstabBefore : ost' = [ost EXCEPT !.fstab = before]
                ELSE /\ Bail("Creating ostree deployment: Failed to find deployment", "")
                     /\ UNCHANGED ost
    /\ UNCHANGED <<mnt, entry, host, notice, state, rootfs, blk, tgt>>

\* the line for /boot written over what etc/fstab held
initialize_ostree_root_fstab_truncates ==
    /\ pc = "fstab"
    /\ \E ok \in BOOLEAN :
        /\ Call("append", "etc/fstab", ok)
        /\ IF ok
           THEN /\ Goto("uname")
                /\ ost' = [ost EXCEPT !.fstab = Some(<<to_fstab(rootfs.boot)>>)]
           ELSE Bail("Creating ostree deployment: Opening etc/fstab", "") /\ UNCHANGED ost
    /\ UNCHANGED <<mnt, entry, host, notice, state, rootfs, blk, tgt>>

\* install.rs:401-413: append the line for /boot to the deployment's etc/fstab
initialize_ostree_root_fstab ==
    /\ pc = "fstab"
    /\ \E ok \in BOOLEAN :
        /\ Call("append", "etc/fstab", ok)
        /\ IF ok
           THEN /\ Goto("uname")
                /\ ost' = [ost EXCEPT !.fstab =
                              Some((IF ost.fstab.some THEN ost.fstab.v ELSE <<>>)
                                   \o <<to_fstab(rootfs.boot)>>)]
           ELSE Bail("Creating ostree deployment: Opening etc/fstab", "") /\ UNCHANGED ost
    /\ UNCHANGED <<mnt, entry, host, notice, state, rootfs, blk, tgt>>

\* install.rs:415-422: the aleph record returned to install_to_filesystem_impl
initialize_ostree_root_aleph ==
    /\ pc = "uname"
    /\ \E ok \in BOOLEAN :
        /\ Call("uname", "", ok)
        /\ IF ok
           THEN /\ Goto("write_aleph")
                /\ ost' = [ost EXCEPT
                              !.aleph = Some([image |-> ost.src_imageref.name,
                                              kernel |-> "release"]),
                              !.target_imgref = NoImgRef,
                              !.deployed.target_imgref = NoImgRef,
                              !.src_imageref = NoImgRef,
                              !.oci_content = ""]
           ELSE Bail("Creating ostree deployment: uname", "") /\ UNCHANGED ost
    /\ UNCHANGED <<mnt, entry, host, notice, state, rootfs, blk, tgt>>

initialize_ostree_root_from_self ==
    \/ initialize_ostree_root_target
    \/ initialize_ostree_root_init
    \/ initialize_ostree_root_source
    \/ initialize_ostree_root_tempdir
    \/ initialize_ostree_root_copy
    \/ initialize_ostree_root_deploy
    \/ initialize_ostree_root_drop_tempdir
    \/ initialize_ostree_root_reload
    \/ initialize_ostree_root_fstab
    \/ initialize_ostree_root_aleph

\* ----------------------------------------------- install_to_filesystem_impl
\* install.rs:659-669: write the aleph record beneath the root
install_to_filesystem_impl_aleph ==
    /\ pc = "write_aleph"
    /\ \E ok \in BOOLEAN :
        /\ Call("atomic_replace_with", BOOTC_ALEPH_PATH, ok)
        /\ IF ok
           THEN Goto("bootloader") /\ ost' = [ost EXCEPT !.aleph_file = ost.aleph]
           ELSE Bail("Writing aleph version", "") /\ UNCHANGED ost
    /\ UNCHANGED <<mnt, entry, host, notice, state, rootfs, blk, tgt>>

\* install.rs:486-492
get_boot_uuid(root_setup) == require_boot_uuid(root_setup.boot)

\* install.rs:671-673: the bootloader, installed against the boot UUID
install_to_filesystem_impl_bootloader ==
    /\ pc = "bootloader"
    /\ LET boot_uuid == get_boot_uuid(rootfs)
       IN  IF ~boot_uuid.some
           THEN /\ Bail("/boot is not specified via UUID= (this is currently required)", "")
                /\ UNCHANGED <<trace, ost>>
           ELSE \E ok \in BOOLEAN :
                /\ Call("install_via_bootupd", rootfs.device, ok)
                /\ ost' = [ost EXCEPT !.bootupd_uuid = boot_uuid, !.i = 1]
                /\ IF ok THEN Goto("finish") ELSE Bail("install_via_bootupd", "")
    /\ UNCHANGED <<mnt, entry, host, notice, state, rootfs, blk, tgt>>

\* finalize_filesystem freezing before it remounts read-only
finalize_filesystem_freeze_first(fs) ==
    << [op |-> "fstrim", arg |-> fs],
       [op |-> "xfs_freeze -f", arg |-> fs],
       [op |-> "mount -o remount,ro", arg |-> fs],
       [op |-> "xfs_freeze -u", arg |-> fs] >>

\* install.rs:557-576: the calls of finalize_filesystem, in program order
finalize_filesystem(fs) ==
    << [op |-> "fstrim", arg |-> fs],
       [op |-> "mount -o remount,ro", arg |-> fs],
       [op |-> "xfs_freeze -f", arg |-> fs],
       [op |-> "xfs_freeze -u", arg |-> fs] >>

\* the calls after the bootloader with the immutable bit set first
finish_steps_immutable_first(ignition_file, root) ==
    << [op |-> "chattr +i", arg |-> root] >>
    \o (IF ignition_file
        THEN << [op |-> "open", arg |-> "ignition_file"],
                [op |-> "write_ignition", arg |-> root \o "/boot"],
                [op |-> "enable_firstboot", arg |-> root \o "/boot"] >>
        ELSE <<>>)
    \o finalize_filesystem(root \o "/boot")
    \o finalize_filesystem(root)

\* install.rs:675-696: the calls after the bootloader: the Ignition config if
\* one was given, the immutable bit, and the finalization of boot, then root
finish_steps(ignition_file, root) ==
    (IF ignition_file
     THEN << [op |-> "open", arg |-> "ignition_file"],
             [op |-> "write_ignition", arg |-> root \o "/boot"],
             [op |-> "enable_firstboot", arg |-> root \o "/boot"] >>
     ELSE <<>>)
    \o << [op |-> "chattr +i", arg |-> root] >>
    \o finalize_filesystem(root \o "/boot")
    \o finalize_filesystem(root)

\* install.rs:675-698: one of those calls
install_to_filesystem_impl_finish ==
    /\ pc = "finish"
    /\ LET steps == finish_steps(ost.ignition_file, rootfs.rootfs)
           s == steps[ost.i]
       IN  \E ok \in BOOLEAN :
            /\ Call(s.op, s.arg, ok)
            /\ IF ok
               THEN /\ Goto(IF ost.i < Len(steps) THEN "finish" ELSE "drop_rootfs")
                    /\ ost' = [ost EXCEPT !.i = ost.i + 1]
               ELSE Bail(s.op, s.arg) /\ UNCHANGED ost
    /\ UNCHANGED <<mnt, entry, host, notice, state, rootfs, blk, tgt>>

install_to_filesystem_impl ==
    \/ install_to_filesystem_impl_kargs
    \/ initialize_ostree_root_from_self
    \/ install_to_filesystem_impl_aleph
    \/ install_to_filesystem_impl_bootloader
    \/ install_to_filesystem_impl_finish

\* ------------------------------------------------------------- the endings
\* drop_rootfs without the drop: the RootSetup lives to the end of the
\* function
drop_rootfs_at_end_of_scope ==
    /\ pc = "drop_rootfs"
    /\ Goto(IF entry = "install" THEN "umount" ELSE "complete")
    /\ UNCHANGED <<mnt, entry, host, trace, notice, state, rootfs, blk, tgt, ost>>

\* install.rs:717-719 and 871-872: drop(rootfs) closes rootfs_fd
drop_rootfs ==
    /\ pc = "drop_rootfs"
    /\ rootfs' = [rootfs EXCEPT !.held = FALSE]
    /\ Goto(IF entry = "install" THEN "umount" ELSE "complete")
    /\ UNCHANGED <<mnt, entry, host, trace, notice, state, blk, tgt, ost>>

\* install_umount without the `?` of install.rs:725
install_umount_unchecked ==
    /\ entry = "install"
    /\ pc = "umount"
    /\ \E ok \in BOOLEAN :
        /\ Call("umount -R", rootfs.rootfs, ok)
        /\ Goto("complete")
    /\ UNCHANGED <<mnt, entry, host, notice, state, rootfs, blk, tgt, ost>>

\* install.rs:721-725: install unmounts what it mounted
install_umount ==
    /\ entry = "install"
    /\ pc = "umount"
    /\ \E ok \in BOOLEAN :
        /\ Call("umount -R", rootfs.rootfs, ok)
        /\ IF ok THEN Goto("complete") ELSE Bail("Unmounting filesystems", "")
    /\ UNCHANGED <<mnt, entry, host, notice, state, rootfs, blk, tgt, ost>>

\* install.rs:701-703, 727-729, 874-876
installation_complete ==
    /\ pc = "complete"
    /\ notice' = TRUE
    /\ pc' = "exit"
    /\ result' = "ok"
    /\ UNCHANGED <<mnt, entry, host, trace, err, state, rootfs, blk, tgt, ost>>

\* install.rs:706-730: the steps that only `install` takes
install ==
    \/ install_create_rootfs
    \/ install_umount

\* install.rs:765-877: the steps that only `install-to-filesystem` takes
install_to_filesystem == install_to_filesystem_prepare

\* Both entry points run prepare_install, then their own preparation of the
\* target, then install_to_filesystem_impl, then drop the RootSetup and print.
Next ==
    \/ prepare_install
    \/ install
    \/ install_to_filesystem
    \/ install_to_filesystem_impl
    \/ drop_rootfs
    \/ installation_complete

Spec == Init /\ [][Next]_vars

\* ---------------------------------------------------------------- MountSpec
\* MountSpec on its own: a text is parsed, encoded as an fstab line and the
\* line parsed again; or a MountSpec is constructed from a source, or from a
\* UUID, and asked for its source UUID.
\* install.rs:241: the texts given to from_str, of a letter, a space and a tab
Texts == UNION {[1..n -> {"a", " ", "\t"}] : n \in 0..MaxTextLen}

\* install.rs:223: sources are a key, with or without an = and what follows it
SourceKeys ==
    {<<"U", "U", "I", "D">>, <<"u", "u", "i", "d">>, <<"U", "u", "i", "D">>,
     <<"U", "U", "I">>, <<"U", "U", "I", "D", "S">>, <<"X", "U", "U", "I", "D">>,
     <<"L", "A", "B", "E", "L">>, <<"/", "d", "e", "v", "/", "s", "d", "a", "2">>, <<>>}
\* install.rs:223: what follows the first = of a source, also a UUID
SourceValues == {<<>>, <<"c">>, <<"c", "=", "d">>, <<"=", "c">>}

\* install.rs:208-261: the arguments of from_str, new and new_uuid_src
MountSpecInputs(via) ==
    CASE via = "from_str" -> Texts
      [] via = "new" ->
            SourceKeys \cup {k \o <<"=">> \o v : k \in SourceKeys, v \in SourceValues}
      [] OTHER -> SourceValues

\* install.rs:208-261: one of from_str, new, new_uuid_src is about to be called
MountSpecInit ==
    /\ pc \in {"from_str", "new", "new_uuid_src"}
    /\ mnt \in {[NoMnt EXCEPT !.via = pc, !.text = t] : t \in MountSpecInputs(pc)}
    /\ entry = "install"
    /\ host = NoHost
    /\ trace = <<>>
    /\ result = "running"
    /\ err = NoErr
    /\ notice = FALSE
    /\ state = NoState
    /\ rootfs = NoRootSetup
    /\ blk = NoBlk
    /\ tgt = NoTgt
    /\ ost = NoOst

\* install.rs:198-204: a MountSpec is a value of its own, nothing else changes
MountSpecFrame ==
    UNCHANGED <<entry, host, trace, result, err, notice, state, rootfs, blk, tgt, ost>>

\* install.rs:240-261: text.parse::<MountSpec>()
mount_spec_from_str ==
    /\ pc = "from_str"
    /\ mnt' = [mnt EXCEPT !.spec = from_str(mnt.text)]
    /\ pc' = IF from_str(mnt.text).ok THEN "to_fstab" ELSE "done"
    /\ MountSpecFrame

\* install.rs:231-237: spec.to_fstab()
mount_spec_to_fstab ==
    /\ pc = "to_fstab"
    /\ mnt' = [mnt EXCEPT !.fstab = to_fstab(mnt.spec.v)]
    /\ pc' = "from_str_again"
    /\ MountSpecFrame

\* install.rs:240-261: the fstab line, parsed
mount_spec_from_str_again ==
    /\ pc = "from_str_again"
    /\ mnt' = [mnt EXCEPT !.again = from_str(mnt.fstab)]
    /\ pc' = "done"
    /\ MountSpecFrame

\* install.rs:208-215: MountSpec::new(source, "/boot")
mount_spec_new ==
    /\ pc = "new"
    /\ mnt' = [mnt EXCEPT !.spec = Ok(MountSpec_new(mnt.text, SLASH_BOOT))]
    /\ pc' = "get_source_uuid"
    /\ MountSpecFrame

\* install.rs:217-220: MountSpec::new_uuid_src(uuid, "/boot")
mount_spec_new_uuid_src ==
    /\ pc = "new_uuid_src"
    /\ mnt' = [mnt EXCEPT !.spec = Ok(new_uuid_src(mnt.text, SLASH_BOOT))]
    /\ pc' = "get_source_uuid"
    /\ MountSpecFrame

\* install.rs:222-229: spec.get_source_uuid()
mount_spec_get_source_uuid ==
    /\ pc = "get_source_uuid"
    /\ mnt' = [mnt EXCEPT !.uuid = get_source_uuid(mnt.spec.v)]
    /\ pc' = "done"
    /\ MountSpecFrame

\* install.rs:208-261: impl MountSpec
MountSpecNext ==
    \/ mount_spec_from_str
    \/ mount_spec_to_fstab
    \/ mount_spec_from_str_again
    \/ mount_spec_new
    \/ mount_spec_new_uuid_src
    \/ mount_spec_get_source_uuid

\* install.rs:208-261: impl MountSpec
MountSpecSpec == MountSpecInit /\ [][MountSpecNext]_vars

\* ================================================================ properties
\* the positions of the history at which `op` was called on `arg`
Calls(op, arg) == {i \in DOMAIN trace : trace[i].op = op /\ trace[i].arg = arg}
\* the positions of the history at which one of `ops` was called
CallsOf(ops) == {i \in DOMAIN trace : trace[i].op \in ops}

\* the tools and mounts install_create_rootfs formats the device with
FormatOps == {"wipefs", "mount", "sgdisk", "mkfs", "mkfs.fat"}

\* C1: when list_dev reports at least one child partition and wipe is false,
\* install_create_rootfs fails, and when it has failed no wipefs, no mount
\* (the devtmpfs, the target), no sgdisk and no mkfs has been invoked.
ProvisionerRefusesPartitionedDevice ==
    (entry = "install" /\ blk.children # <<>> /\ ~blk.wipe
        /\ pc # "wipe_or_require_empty")
    => /\ pc = "exit"
       /\ result = "err"
       /\ err.msg = "Creating rootfs: Detected existing partitions"
       /\ CallsOf(FormatOps) = {}

ProvisionerRefusedPartitionedDevice ==
    /\ entry = "install"
    /\ Len(blk.children) >= 2
    /\ ~blk.wipe
    /\ result = "err"
    /\ err.msg = "Creating rootfs: Detected existing partitions"
    /\ Calls("list_dev", Device) # {}

\* C2: with wipe = true every child partition is wiped before the parent
\* device is, in the order list_dev reported them, the parent device is wiped
\* before sgdisk is invoked, and after a wipe has failed sgdisk is not
\* invoked.
WipeChildrenThenParentThenPartition ==
    (entry = "install" /\ blk.wipe)
    => LET parent == Calls("wipefs", Device)
           sgdisk == CallsOf({"sgdisk"})
           wipes == CallsOf({"wipefs"})
       IN  /\ \A p \in parent : \A k \in DOMAIN blk.children :
                 \E c \in Calls("wipefs", blk.children[k]) : c < p /\ trace[c].ok
           /\ \A k, l \in DOMAIN blk.children :
                 \A c \in Calls("wipefs", blk.children[k]),
                    d \in Calls("wipefs", blk.children[l]) : k < l => c < d
           /\ \A g \in sgdisk : \E p \in parent : p < g /\ trace[p].ok
           /\ (\E w \in wipes : ~trace[w].ok) => sgdisk = {}
           /\ (\E w \in wipes : ~trace[w].ok) => (pc = "exit" /\ result = "err")

WipedChildrenThenParentThenPartitioned ==
    /\ entry = "install"
    /\ blk.wipe
    /\ Len(blk.children) >= 2
    /\ CallsOf({"sgdisk"}) # {}

\* the steps of install_to_filesystem_impl that write to the target
DeploymentOps ==
    {"ostree admin init-fs", "ostree config set", "ostree admin os-init", "sysroot.load",
     "skopeo copy", "deploy", "append", "atomic_replace_with", "install_via_bootupd",
     "write_ignition", "enable_firstboot", "chattr +i",
     "fstrim", "mount -o remount,ro", "xfs_freeze -f", "xfs_freeze -u"}

\* C3: in install-to-filesystem, when boot is not a filesystem mounted apart
\* from the target root, the run does not get past the comparison of the
\* device identities: it fails, no RootSetup is built and no step of the
\* deployment, the bootloader installation or the finalization has run.
SameDeviceBootNeverDeployed ==
    (entry = "install_to_filesystem" /\ tgt.open /\ ~tgt.boot_mounted)
    => /\ pc \in {"wipe_or_verify", "inspect_root", "root_mount_spec", "verify_boot", "exit"}
       /\ pc = "exit" => result = "err"
       /\ ~rootfs.held
       /\ ost = NoOst
       /\ CallsOf(DeploymentOps) = {}

SameDeviceBootRefused ==
    /\ entry = "install_to_filesystem"
    /\ Contains(tgt.root, BOOT)
    /\ ~tgt.boot_mounted
    /\ result = "err"
    /\ err.msg = "/boot must currently be a separate mounted filesystem"

\* install-to-filesystem without --wipe has run require_empty_rootdir on the
\* tree that tgt holds
EmptyRootChecked ==
    /\ entry = "install_to_filesystem"
    /\ tgt.open
    /\ ~tgt.wipe
    /\ pc # "wipe_or_verify"

\* ... and the check refused the tree
EmptyRootRefused ==
    /\ EmptyRootChecked
    /\ result = "err"
    /\ err.msg \in {"Verifying empty rootfs: Non-empty root filesystem",
                     "Verifying empty rootfs: Non-empty boot directory",
                     "Verifying empty rootfs: Invalid non-UTF8 filename"}

OnlyLostFoundAndBoot(root) ==
    \A i \in DOMAIN root : root[i] \in {LOST_AND_FOUND, BOOT}

\* C4 as amended: without wipe, require_empty_rootdir succeeds when the root
\* holds only lost+found and an empty boot directory, and when the root holds
\* any other entry it fails with an error that names either an entry of the
\* root that is neither lost+found nor boot, or an entry of the boot
\* directory that is neither lost+found nor the EFI directory.
EmptyRootCheckNamesOffendingEntry ==
    EmptyRootChecked
    => /\ (OnlyLostFoundAndBoot(tgt.root) /\ tgt.boot = <<>>) => ~EmptyRootRefused
       /\ ~OnlyLostFoundAndBoot(tgt.root)
            => /\ EmptyRootRefused
               /\ \/ /\ Contains(tgt.root, err.name)
                     /\ err.name \notin {LOST_AND_FOUND, BOOT}
                  \/ /\ Contains(tgt.boot, err.name)
                     /\ err.name \notin {LOST_AND_FOUND, EFI_DIR}

\* the root holds an unexpected entry and the error names an entry of boot
EmptyRootRefusedNamingBootEntry ==
    /\ EmptyRootRefused
    /\ ~OnlyLostFoundAndBoot(tgt.root)
    /\ err.msg = "Verifying empty rootfs: Non-empty boot directory"
    /\ ~Contains(tgt.root, err.name)

\* C4 as claimed: without wipe, require_empty_rootdir succeeds when the root
\* holds only lost+found and an empty boot directory, and when the root holds
\* any other entry it fails with an error that names an entry that is neither
\* lost+found nor boot.
EmptyRootCheckNamesUnexpectedEntry ==
    EmptyRootChecked
    => /\ (OnlyLostFoundAndBoot(tgt.root) /\ tgt.boot = <<>>) => ~EmptyRootRefused
       /\ ~OnlyLostFoundAndBoot(tgt.root)
            => /\ EmptyRootRefused
               /\ err.name \notin {LOST_AND_FOUND, BOOT}

\* C5: without wipe, the empty-root check accepts a boot directory only if
\* every entry of boot is lost+found or the EFI directory, whatever the order
\* the directory yields its entries in.
BootAcceptedOnlyIfEveryEntryAllowed ==
    (EmptyRootChecked /\ ~EmptyRootRefused /\ Contains(tgt.root, BOOT))
    => \A i \in DOMAIN tgt.boot : tgt.boot[i] \in {LOST_AND_FOUND, EFI_DIR}

\* C6: with wipe requested and boot a filesystem mounted apart from the root,
\* the run does not fail in the wipe, nor in the checks that boot exists and
\* lies on another device: it goes on to the deployment.
WipeWithMountedBootReachesDeployment ==
    (entry = "install_to_filesystem" /\ tgt.open /\ tgt.wipe /\ tgt.boot_mounted
        /\ result = "err")
    => err.msg \notin {"remove_all_optional: Device or resource busy",
                       "No /boot directory found in root; this is is currently required",
                       "/boot must currently be a separate mounted filesystem"}

\* C7: when the run fails because the /boot MountSpec is not UUID=-keyed, no
\* deploy has run, no fstab line made from that MountSpec has been written
\* and the bootloader installer has not been invoked.
NonUuidBootRejectedBeforeUse ==
    (result = "err"
        /\ err.msg = "/boot is not specified via UUID= (this is currently required)")
    => /\ ~ost.deployed.done
       /\ CallsOf({"deploy", "append", "install_via_bootupd"}) = {}
       /\ ost.fstab.some => ~Contains(ost.fstab.v, to_fstab(rootfs.boot))

\* C8: on the direct path and on the staged OCI path, the image content that
\* deploy is given as the source is the content of the digest recorded in the
\* install state.
DeploySourceIsTheRecordedDigest ==
    (ost.deployed.done /\ pc = "drop_temporary_dir")
    => content_of(ost.src_imageref, ost.oci_content) = state.source_digest

\* the steps of finalize_filesystem, as the claim orders them
FinalizeOrder == <<"fstrim", "mount -o remount,ro", "xfs_freeze -f", "xfs_freeze -u">>
FinalizeOps == {FinalizeOrder[k] : k \in DOMAIN FinalizeOrder}

\* C9: the finalization steps that have run are, in this order: trim, remount
\* read-only, freeze, thaw of boot, then the same of root; each has run only
\* after every earlier step succeeded, and a failed one is the last call of a
\* run that failed.
FinalizationBootThenRootInOrder ==
    LET f == CallsOf(FinalizeOps)
        n == Cardinality(f)
    IN  f # {}
        => LET first == CHOOSE i \in f : \A j \in f : i <= j
           IN  /\ n <= 8
               /\ f = first..(first + n - 1)
               /\ \A i \in 1..(first - 1) : trace[i].ok
               /\ \A k \in 1..n :
                     LET e == trace[first + k - 1]
                     IN  /\ e.op = FinalizeOrder[((k - 1) % 4) + 1]
                         /\ e.arg = IF k <= 4 THEN rootfs.rootfs \o "/boot"
                                              ELSE rootfs.rootfs
                         /\ k < n => e.ok
                         /\ ~e.ok => /\ first + k - 1 = Len(trace)
                                     /\ result = "err"
                                     /\ pc = "exit"

FinalizedBootThenRoot ==
    /\ Cardinality(CallsOf(FinalizeOps)) = 8
    /\ \A i \in DOMAIN trace : trace[i].ok
    /\ pc = "drop_rootfs"

\* C10: "Installation complete!" is printed only by a run in which the
\* preflight, the provisioning or the validation of the target, the
\* deployment, the aleph write, the bootloader installation, the immutable
\* bit, the eight finalization steps and, for install, the recursive unmount
\* all ran and succeeded; a run that ends without an error has printed it;
\* a run in which a step failed never prints it.
NoticeIffEveryStepSucceeded ==
    /\ notice
         => /\ result = "ok"
            /\ pc = "exit"
            /\ \A i \in DOMAIN trace : trace[i].ok
            /\ Calls("prepare_install", "") # {}
            /\ entry = "install"
                 => /\ Calls("install_create_rootfs", "") # {}
                    /\ Calls("umount -R", rootfs.rootfs) # {}
            /\ entry = "install_to_filesystem"
                 => Calls("install_to_filesystem: target validated", "") # {}
            /\ \A op \in {"deploy", "atomic_replace_with", "install_via_bootupd",
                            "chattr +i"} : CallsOf({op}) # {}
            /\ Cardinality(CallsOf(FinalizeOps)) = 8
    /\ (result = "err" \/ \E i \in DOMAIN trace : ~trace[i].ok) => ~notice
    /\ (pc = "exit" /\ result # "err") => notice

NoticePrintedByInstall ==
    /\ notice
    /\ entry = "install"
    /\ Calls("umount -R", rootfs.rootfs) # {}

\* C11: once a call to a collaborator has failed, it is the last call of the
\* run: the run has ended with an error, the failed call was not made again,
\* no later step ran and nothing was undone (no unmount, no wipe).
FailedOperationEndsTheRun ==
    \A i \in DOMAIN trace :
        ~trace[i].ok => /\ i = Len(trace)
                        /\ pc = "exit"
                        /\ result = "err"
                        /\ ~notice

\* the deploy operation failed with the target mounted and the RootSetup held
DeployFailedEndsTheRun ==
    /\ trace # <<>>
    /\ trace[Len(trace)].op = "deploy"
    /\ ~trace[Len(trace)].ok
    /\ rootfs.held
    /\ result = "err"

\* the text "UUID=" followed by a UUID
UuidSource(uuid) == <<"U", "U", "I", "D", "=">> \o uuid
\* the kernel argument key=UUID=<uuid>
UuidKarg(key, uuid) == key \o <<"=">> \o UuidSource(uuid)

\* C12: when install_create_rootfs returns, the RootSetup it returns has the
\* kernel arguments root=UUID=<root-uuid>, rw, boot=UUID=<boot-uuid>, these
\* three in this order, where the UUIDs are the ones mkfs made the root and
\* the boot filesystem with, and its boot MountSpec has the source
\* UUID=<boot-uuid> and the target /boot.
ProvisionerKargsRootRwBoot ==
    [][(pc = "root_setup" /\ pc' # "root_setup")
        => /\ rootfs'.held
           /\ rootfs'.kargs = << UuidKarg(<<"r", "o", "o", "t">>, blk.root_uuid),
                                 <<"r", "w">>,
                                 UuidKarg(<<"b", "o", "o", "t">>, blk.boot_uuid) >>
           /\ rootfs'.boot.source = UuidSource(blk.boot_uuid)
           /\ rootfs'.boot.target = <<"/", "b", "o", "o", "t">>]_vars

\* install_create_rootfs has returned a RootSetup whose two UUIDs differ
ProvisionerReturnedRootSetup ==
    /\ entry = "install"
    /\ pc = "impl"
    /\ rootfs.held
    /\ Len(rootfs.kargs) = 3
    /\ rootfs.kargs[1] = UuidKarg(<<"r", "o", "o", "t">>, <<"a">>)
    /\ rootfs.kargs[3] = UuidKarg(<<"b", "o", "o", "t">>, <<"b">>)

\* C13: when a device reached in the walk to the backing device, the source
\* device of the root or an ancestor of it, reports more than one parent, the
\* run has failed with the error for that device, no RootSetup has been built
\* and no step of the deployment has run.
MultipleParentsFailResolution ==
    (entry = "install_to_filesystem" /\ Len(tgt.parents) > 1)
    => /\ pc = "exit"
       /\ result = "err"
       /\ err = [msg |-> "Found multiple parent devices; not currently supported",
                 name |-> DevAt(tgt.height)]
       /\ ~rootfs.held
       /\ rootfs = NoRootSetup
       /\ ost = NoOst
       /\ CallsOf(DeploymentOps) = {}

\* an ancestor of the root's source device reported two parents
AncestorReportedTwoParents ==
    /\ entry = "install_to_filesystem"
    /\ Len(tgt.parents) = 2
    /\ tgt.height < tgt.source
    /\ result = "err"

\* the lookups of the walk to the backing device that this run has made
ParentLookups == CallsOf({"find_parent_devices"})

\* C14: on a source device whose chain to the whole disk has N devices, each
\* but the last with one parent, the walk to the backing device makes no more
\* than N lookups, and when it ends it has made N and stands at the one
\* device of the chain that has no parent.
LinearChainResolvesInNLookups ==
    (entry = "install_to_filesystem" /\ Len(tgt.parents) <= 1)
    => LET N == tgt.source + 1
       IN  /\ Cardinality(ParentLookups) <= N
           /\ pc = "build_root_setup"
                => /\ Cardinality(ParentLookups) = N
                   /\ \A i \in ParentLookups : trace[i].ok
                   /\ tgt.lookups = N
                   /\ tgt.parents = <<>>
                   /\ ParentsOf(tgt.height) = {<<>>}
                   /\ DevAt(tgt.height) = "/dev/block0"

\* the walk ended at the whole disk after three lookups
ChainOfThreeResolved ==
    /\ entry = "install_to_filesystem"
    /\ pc = "build_root_setup"
    /\ tgt.source = 2
    /\ Cardinality(ParentLookups) = 3

\* the last call of the history failed
LastCallFailed(t) == t # <<>> /\ ~t[Len(t)].ok

DisableSelinuxReachesKargs ==
    (host.disable_selinux = "given" /\ result = "ok")
    => /\ ost.deployed.done
       /\ Contains(ost.deployed.kargs, <<"s", "e", "l", "i", "n", "u", "x", "=", "0">>)

\* C17: over the whole run, the process that the SELinux re-exec starts
\* included, the program re-executes itself at most once, mounts a tmpfs on
\* /tmp at most once and bind-mounts the host's /var/tmp at most once; after
\* a re-exec no second one is attempted.
PrivilegeActionsAtMostOnce ==
    /\ Cardinality(Calls("execve", "self")) <= 1
    /\ Cardinality(Calls("mount", "tmpfs /tmp")) <= 1
    /\ Cardinality(Calls("mount", "--bind /var/tmp")) <= 1
    /\ \A i \in Calls("execve", "self") : host.guardenv <=> trace[i].ok

\* the re-executed process has finished the preflight: one re-exec, one
\* tmpfs mount and one bind mount were made in the run
PreflightDoneAfterReexec ==
    /\ pc = "build_state"
    /\ \E i \in Calls("execve", "self") : trace[i].ok
    /\ Calls("mount", "tmpfs /tmp") # {}
    /\ Calls("mount", "--bind /var/tmp") # {}

\* the run has ended with the error `msg`
FailedWith(msg) == pc = "exit" /\ result = "err" /\ err.msg = msg

\* the calls of the running process image, in order: those after the re-exec
\* if there was one
ImageOps ==
    LET execs == {i \in Calls("execve", "self") : trace[i].ok}
        start == IF execs = {} THEN 0 ELSE CHOOSE i \in execs : \A j \in execs : j <= i
    IN  [k \in 1..(Len(trace) - start) |-> trace[start + k].op]

NotHostInit == "This command must be run with --pid=host"
NotPodman == "Currently this command only supports being executed via podman"
EmptyImageId == "Invalid empty imageid"
NoDigest == "imageid_to_digest"

\* C18: prepare_install fails when PID 1's executable has no "systemd" in
\* it, when the engine is not podman, when the image id is empty and when
\* the lookup of the digest fails; it then returns no State, and it has not
\* entered a mount namespace, mounted a tmpfs, re-executed or bind-mounted
\* /var/tmp; the four are checked in this order, each only after the ones
\* before it passed.
PreflightFailsFast ==
    /\ state.pid = "other" => FailedWith(NotHostInit)
    /\ state.container_info.engine = "docker" => FailedWith(NotPodman)
    /\ (state.container_info.engine = "podman" /\ state.container_info.imageid = "")
         => FailedWith(EmptyImageId)
    /\ (LastCallFailed(trace) /\ trace[Len(trace)].op = "imageid_to_digest")
         => FailedWith(NoDigest)
    /\ (result = "err" /\ err.msg \in {NotHostInit, NotPodman, EmptyImageId, NoDigest})
         => /\ ~state.built
            /\ state.source_digest = ""
            /\ \A k \in DOMAIN ImageOps : ImageOps[k] \notin {"unshare", "mount", "execve"}
            /\ err.msg = NotHostInit
                 => ImageOps = <<"read_link">>
            /\ err.msg = NotPodman
                 => /\ ImageOps = <<"read_link", "get_container_execution_info">>
                    /\ state.pid = "systemd"
            /\ err.msg = EmptyImageId
                 => /\ ImageOps = <<"read_link", "get_container_execution_info">>
                    /\ state.pid = "systemd"
                    /\ state.container_info.engine = "podman"
            /\ err.msg = NoDigest
                 => /\ ImageOps = <<"read_link", "get_container_execution_info",
                                    "imageid_to_digest">>
                    /\ state.pid = "systemd"
                    /\ state.container_info = [engine |-> "podman", imageid |-> "0123abc"]

\* the engine is not podman and the image id is empty: the engine is what
\* the error is about
PreflightRefusedEngineFirst ==
    /\ FailedWith(NotPodman)
    /\ state.container_info = [engine |-> "docker", imageid |-> ""]

\* the eight steps of the finalization of boot and root have run and
\* succeeded
FinalizationCompleted ==
    /\ Cardinality(CallsOf(FinalizeOps)) = 8
    /\ \A i \in CallsOf(FinalizeOps) : trace[i].ok

\* C19: in install, the RootSetup and its open directory are dropped after
\* the finalization of boot and root has succeeded and before umount -R of
\* the root path is invoked: umount is not invoked while the directory is
\* open, nor before the finalization is complete.
RootSetupDroppedBeforeUnmount ==
    entry = "install"
    => /\ (rootfs.rootfs # "" /\ ~rootfs.held) => FinalizationCompleted
       /\ (pc = "umount" \/ CallsOf({"umount -R"}) # {})
            => /\ ~rootfs.held
               /\ FinalizationCompleted
               /\ Calls("umount -R", rootfs.rootfs) = CallsOf({"umount -R"})
               /\ \A u \in CallsOf({"umount -R"}), f \in CallsOf(FinalizeOps) : f < u

\* umount -R has been invoked, with the RootSetup dropped
UnmountedWithRootSetupDropped ==
    /\ entry = "install"
    /\ Calls("umount -R", MntDir \o "/rootfs") # {}
    /\ ~rootfs.held
    /\ rootfs.rootfs = MntDir \o "/rootfs"

\* the orchestrator staged the image: it made the temporary directory
Staged == \E i \in Calls("tempdir_in", "/var/tmp") : trace[i].ok

\* the positions of initialize_ostree_root_from_self up to the end of deploy
UpToDeploy == {"target_imgref", "ostree_init", "skopeo_version", "tempdir",
               "copy_to_oci", "deploy", "drop_temporary_dir"}

\* C20: when skopeo cannot read the local store and the image is staged in
\* a temporary OCI directory, the directory exists from the start of the
\* deploy operation to its end, and is gone when the orchestrator has
\* returned, with or without an error; when the image is pulled directly, no
\* temporary directory is made at any time.
StagingDirLivesAcrossDeployOnly ==
    /\ (Staged /\ pc \in {"copy_to_oci", "deploy", "drop_temporary_dir"})
         => ost.temporary_dir = "exists"
    /\ (pc = "deploy" /\ ost.src_imageref.transport = "oci") => Staged
    /\ pc \notin UpToDeploy => ost.temporary_dir # "exists"
    /\ Staged <=> ost.temporary_dir # "none"
    /\ (pc = "deploy" /\ ost.src_imageref.transport # "oci")
         => /\ ~Staged
            /\ Calls("tempdir_in", "/var/tmp") = {}
    /\ ost.deployed.done
         => (Staged <=> \E i \in CallsOf({"skopeo copy"}) : trace[i].ok)

\* deploy failed on a staged image, and the directory is gone
StagedDeployFailed ==
    /\ Staged
    /\ LastCallFailed(trace)
    /\ trace[Len(trace)].op = "deploy"
    /\ ost.temporary_dir = "removed"

\* ---- MountSpec texts
\* the number of fields of a text: the places where a character that is not
\* whitespace starts the text or follows whitespace
IsSpace(c) == c = " " \/ c = "\t"
FieldCount(s) ==
    Cardinality({i \in 1..Len(s) :
        /\ ~IsSpace(s[i])
        /\ (i = 1 \/ IsSpace(s[i - 1]))})
EffectiveOptions(o) ==
    IF o.some THEN o.v ELSE <<"d", "e", "f", "a", "u", "l", "t", "s">>
\* the text has been parsed
Parsed == mnt.via = "from_str" /\ pc # "from_str"
\* the fstab line of the parsed text has been parsed in its turn
RoundTripped == mnt.via = "from_str" /\ pc = "done" /\ mnt.spec.ok

\* C23: every text of 2 to 4 whitespace-separated fields parses; the fstab
\* line of the result is source, target, fstype and the options or
\* "defaults", then 0 and 0, six fields in all; and parsing that line gives
\* the same source, target, fstype and effective options.
ParseEncodeRoundTrip ==
    /\ (Parsed /\ FieldCount(mnt.text) \in 2..4) => mnt.spec.ok
    /\ (RoundTripped /\ FieldCount(mnt.text) \in 2..4)
         => /\ FieldCount(mnt.fstab) = 6
            /\ mnt.fstab = mnt.spec.v.source \o <<" ">> \o mnt.spec.v.target
                   \o <<" ">> \o mnt.spec.v.fstype \o <<" ">>
                   \o EffectiveOptions(mnt.spec.v.options) \o <<" ", "0", " ", "0">>
            /\ mnt.again.ok
            /\ mnt.again.v.source = mnt.spec.v.source
            /\ mnt.again.v.target = mnt.spec.v.target
            /\ mnt.again.v.fstype = mnt.spec.v.fstype
            /\ EffectiveOptions(mnt.again.v.options)
                   = EffectiveOptions(mnt.spec.v.options)

\* a text of two fields, without options, went through parse, encode, parse
TwoFieldsRoundTripped ==
    /\ RoundTripped
    /\ FieldCount(mnt.text) = 2
    /\ ~mnt.spec.v.options.some
    /\ mnt.again.v.options = Some(<<"d", "e", "f", "a", "u", "l", "t", "s">>)

\* C24: the empty text, a text of whitespace only and a text of one field
\* are refused with an error; a parsed text of two fields has fstype "auto"
\* and no options, a parsed text of three fields has no options.
ParseRefusesAndDefaults ==
    /\ (Parsed /\ FieldCount(mnt.text) = 0)
         => (~mnt.spec.ok /\ mnt.spec.msg = "Invalid empty mount specification")
    /\ (Parsed /\ FieldCount(mnt.text) = 1)
         => (~mnt.spec.ok /\ mnt.spec.msg = "Missing target in mount specification")
    /\ (Parsed /\ ~mnt.spec.ok) => pc = "done"
    /\ (Parsed /\ mnt.spec.ok /\ FieldCount(mnt.text) = 2)
         => /\ mnt.spec.v.fstype = <<"a", "u", "t", "o">>
            /\ ~mnt.spec.v.options.some
    /\ (Parsed /\ mnt.spec.ok /\ FieldCount(mnt.text) = 3)
         => ~mnt.spec.v.options.some

\* a text with a source and no target was refused
OneFieldRefused ==
    /\ Parsed
    /\ mnt.text = <<" ", "a", "a", "\t">>
    /\ ~mnt.spec.ok

\* C25: parse accepts a text only if it has 2 to 4 fields.
ParseAcceptsTwoToFourFields ==
    (Parsed /\ mnt.spec.ok) => FieldCount(mnt.text) \in 2..4

\* ---- MountSpec sources
UuidSpellings ==
    {<<a, b, c, d>> : a \in {"u", "U"}, b \in {"u", "U"}, c \in {"i", "I"},
                      d \in {"d", "D"}}
\* the source UUID has been read
Extracted == mnt.via \in {"new", "new_uuid_src"} /\ pc = "done"
HasEq(s) == \E i \in 1..Len(s) : s[i] = "="

\* C26: get_source_uuid gives the text after the first = of the source when
\* the text before it is "uuid" in any case, and nothing for any other
\* source; the spec of new_uuid_src(u) gives u.
SourceUuidExtraction ==
    /\ (Extracted /\ mnt.via = "new")
         => /\ \A k \in SourceKeys, v \in SourceValues :
                  mnt.text = k \o <<"=">> \o v
                      => mnt.uuid = IF k \in UuidSpellings THEN Some(v) ELSE None
            /\ ~HasEq(mnt.text) => mnt.uuid = None
    /\ (Extracted /\ mnt.via = "new_uuid_src") => mnt.uuid = Some(mnt.text)

\* the UUID of a source spelled UuiD=c=d was read
MixedCaseUuidExtracted ==
    /\ Extracted
    /\ mnt.text = <<"U", "u", "i", "D", "=", "c", "=", "d">>
    /\ mnt.uuid = Some(<<"c", "=", "d">>)

\* ---- the target image reference
\* C21: the target reference is the one of --target-imgref with the
\* transport of --target-transport when that option is given, and the
\* source reference of the state otherwise; its signature policy is no
\* verification when --target-no-signature-verification is given, with or
\* without a remote, else the remote of --target-ostree-remote, else the
\* container policy; deploy is given that reference.
TargetImgrefFromOptions ==
    [][/\ (pc = "target_imgref" /\ pc' = "ostree_init")
            => LET o == ost.target_opts
                   t == ost'.target_imgref
               IN  /\ o.target_no_signature_verification
                        => t.sigverify = "ContainerPolicyAllowInsecure"
                   /\ (~o.target_no_signature_verification
                          /\ o.target_ostree_remote = Some("fedora"))
                        => t.sigverify = "OstreeRemote:fedora"
                   /\ (~o.target_no_signature_verification
                          /\ o.target_ostree_remote = None)
                        => t.sigverify = "ContainerPolicy"
                   /\ o.target_imgref = Some("quay.io/example/target:stable")
                        => /\ t.name = "quay.io/example/target:stable"
                           /\ t.transport = o.target_transport
                   /\ o.target_imgref = None
                        => /\ t.name = state.source_imageref.name
                           /\ t.transport = state.source_imageref.transport
       /\ (pc = "target_imgref" /\ pc' # "ostree_init")
            => /\ ost.target_opts.target_imgref # None
               /\ ost.target_opts.target_transport = "bogus"
               /\ pc' = "exit" /\ result' = "err"
       /\ (pc \in UpToDeploy \ {"target_imgref"} /\ pc' \in UpToDeploy)
            => ost'.target_imgref = ost.target_imgref
       /\ (pc = "deploy" /\ ost'.deployed.done)
            => ost'.deployed.target_imgref = ost.target_imgref]_vars

\* the reference was made without verification although a remote was named
InsecureTargetWithRemoteNamed ==
    /\ pc = "ostree_init"
    /\ ost.target_opts.target_no_signature_verification
    /\ ost.target_opts.target_ostree_remote = Some("fedora")
    /\ ost.target_opts.target_imgref = None
    /\ ost.target_imgref =
         [sigverify |-> "ContainerPolicyAllowInsecure",
          transport |-> state.source_imageref.transport,
          name |-> state.source_imageref.name, digest |-> ""]

\* ---- etc/fstab of the deployment
\* the line of a /boot mount without fstype or options
BootFstabLine(source) ==
    source \o <<" ", "/", "b", "o", "o", "t", " ", "a", "u", "t", "o", " ",
                "d", "e", "f", "a", "u", "l", "t", "s", " ", "0", " ", "0">>
FstabAppends == Calls("append", "etc/fstab")
DeploySucceeded == \E i \in Calls("deploy", STATEROOT_DEFAULT) : trace[i].ok

\* C22: after a successful deploy, with a deployment found, one line is
\* added at the end of the deployment's etc/fstab, the fstab line of the
\* RootSetup's boot mount; what the file held stays in front of it, and a
\* file that was not there holds that line only; etc/fstab is not written
\* when deploy failed or no deployment was found, and not twice.  (What the
\* deployed image's etc/fstab holds is known when the deployment is found.)
FstabGetsOneBootLine ==
    [][/\ (pc = "fstab" /\ pc' = "uname")
            => /\ rootfs.boot.fstype = <<"a", "u", "t", "o">>
               /\ ~rootfs.boot.options.some
               /\ ost.fstab = None
                    => ost'.fstab = Some(<<BootFstabLine(rootfs.boot.source)>>)
               /\ ost.fstab = Some(<< <<"#">> >>)
                    => ost'.fstab = Some(<< <<"#">>, BootFstabLine(rootfs.boot.source)>>)
       /\ pc = "sysroot_reload" => ost'.fstab \in {None, Some(<< <<"#">> >>)}
       /\ pc \notin {"sysroot_reload", "fstab"} => ost'.fstab = ost.fstab
       /\ (pc = "fstab" /\ pc' # "uname") => ost'.fstab = ost.fstab
       /\ (FstabAppends # {})'
            => (/\ Cardinality(FstabAppends) = 1
                /\ DeploySucceeded
                /\ ost.deployed.done
                /\ \A i \in FstabAppends :
                      /\ i > 1
                      /\ trace[i - 1] = [op |-> "sysroot.load", arg |-> rootfs.rootfs,
                                         ok |-> TRUE]
                      /\ \E j \in Calls("deploy", STATEROOT_DEFAULT) : j < i)'
       /\ (~ost.deployed.done /\ ~ost'.deployed.done) => ost'.fstab = None]_vars

\* the line for /boot was added to a file that held a line
BootLineAppendedToFstab ==
    /\ pc = "uname"
    /\ \E u \in Uuids :
          ost.fstab = Some(<< <<"#">>, BootFstabLine(<<"U", "U", "I", "D", "=">> \o u)>>)

\* ---- the worker threads
\* the calls made once a RootSetup is there (but for the labelling, which
\* install_create_rootfs does too)
AfterTargetOps ==
    {"ostree admin init-fs", "ostree config set", "ostree admin os-init",
     "sysroot.load", "skopeo --version", "tempdir_in", "skopeo copy", "deploy",
     "append", "uname", "atomic_replace_with", "install_via_bootupd", "open",
     "write_ignition", "enable_firstboot", "chattr +i", "fstrim", "xfs_freeze -f",
     "mount -o remount,ro", "xfs_freeze -u", "umount -R"}
EndedInError == pc = "exit" /\ result = "err" /\ err # NoErr /\ ~notice

\* C27: in install nothing of the deployment is done while
\* install_create_rootfs has not returned on its worker thread, and in
\* install-to-filesystem nothing is inspected while the wipe has not; an
\* error of the worker, and its abnormal end, end the run in an error.
WorkerOutcomeNeverDropped ==
    /\ (entry = "install" /\ Calls("install_create_rootfs", "") = {})
         => /\ CallsOf(AfterTargetOps) = {}
            /\ ~rootfs.held
            /\ ~ost.deployed.done
            /\ pc = "exit" => EndedInError
            /\ (Calls("prepare_install", "") # {} /\ LastCallFailed(trace)) => EndedInError
    /\ \A i \in CallsOf({"spawn_blocking"}) :
          /\ i = Len(trace)
          /\ EndedInError
          /\ err.msg = "JoinError"
          /\ CallsOf(AfterTargetOps \cup {"inspect_filesystem"}) = {}
    /\ \A i \in CallsOf({"remove_all_optional"}) :
          ~trace[i].ok => (i = Len(trace) /\ EndedInError)
    /\ (entry = "install_to_filesystem" /\ tgt.wipe /\ pc # "exit")
         => \E i \in Calls("remove_all_optional", RootPath) : trace[i].ok
    /\ (entry = "install_to_filesystem" /\ CallsOf({"inspect_filesystem"}) # {})
         => (tgt.wipe => \E i \in Calls("remove_all_optional", RootPath) :
                             /\ trace[i].ok
                             /\ \A j \in CallsOf({"inspect_filesystem"}) : i < j)

\* the worker of the wipe ended abnormally after it had emptied the root
WipeWorkerEndedAbnormally ==
    /\ entry = "install_to_filesystem"
    /\ Calls("spawn_blocking", "remove_all_optional") # {}
    /\ tgt.root = <<>>
    /\ EndedInError

\* ---- the kernel arguments
IsPrefixOf(a, b) == Len(a) <= Len(b) /\ SubSeq(b, 1, Len(a)) = a
SelinuxOffKarg == <<"s", "e", "l", "i", "n", "u", "x", "=", "0">>
IgnitionKargs ==
    << <<"i", "g", "n", "i", "t", "i", "o", "n", ".", "p", "l", "a", "t", "f", "o", "r",
         "m", ".", "i", "d", "=", "m", "e", "t", "a", "l">>,
       <<"$", "i", "g", "n", "i", "t", "i", "o", "n", "_", "f", "i", "r", "s", "t", "b",
         "o", "o", "t">> >>

\* C28: the kernel arguments of the RootSetup only grow at their end, and
\* only before deploy is called: selinux=0 is added when the override was
\* recorded, then the two Ignition arguments when an Ignition file is
\* configured; deploy is given the list as it is at the end of the run, and
\* its first three elements are the root, rw and boot arguments.
KargsOnlyGrowBeforeDeploy ==
    [][/\ IsPrefixOf(rootfs.kargs, rootfs'.kargs)
       /\ rootfs'.kargs # rootfs.kargs
            => /\ pc \in {"root_setup", "build_root_setup", "impl"}
               /\ CallsOf({"deploy"}) = {}
               /\ ~ost.deployed.done
       /\ pc = "impl"
            => /\ pc' = "target_imgref"
               /\ rootfs'.kargs =
                    rootfs.kargs
                    \o (IF state.override_disable_selinux THEN <<SelinuxOffKarg>> ELSE <<>>)
                    \o (IF ost'.ignition_file THEN IgnitionKargs ELSE <<>>)
       /\ ost'.deployed.done
            => /\ ost'.deployed.kargs = rootfs'.kargs
               /\ Len(rootfs'.kargs) \in {3, 4, 5, 6}
               /\ SubSeq(rootfs'.kargs[1], 1, 5) = <<"r", "o", "o", "t", "=">>
               /\ rootfs'.kargs[2] = <<"r", "w">>
               /\ SubSeq(rootfs'.kargs[3], 1, 5) = <<"b", "o", "o", "t", "=">>]_vars

\* the run ended with selinux=0 and the Ignition arguments after the first
\* three, as deploy was given them
DeployedWithSixKargs ==
    /\ pc = "exit"
    /\ notice
    /\ Len(rootfs.kargs) = 6
    /\ rootfs.kargs[4] = SelinuxOffKarg
    /\ ost.deployed.kargs = rootfs.kargs

\* ---- the order of the steps
\* the steps after the preparation of the target, as the claim orders them,
\* with and without an Ignition payload: the operation and, where the claim
\* names it, the argument ("" for any)
StepOrder(ignition) ==
    << <<"ostree admin init-fs", "">>,
       <<"ostree config set", "sysroot.bootloader none">>,
       <<"ostree config set", "sysroot.readonly true">>,
       <<"ostree admin os-init", "">>,
       <<"lsm_label", "">>,
       <<"sysroot.load", "">>,
       <<"deploy", "">>,
       <<"sysroot.load", "">>,
       <<"append", "etc/fstab">>,
       <<"atomic_replace_with", "">>,
       <<"install_via_bootupd", "">> >>
    \o (IF ignition THEN << <<"write_ignition", "">>, <<"enable_firstboot", "">> >>
        ELSE <<>>)
    \o << <<"chattr +i", "">>,
          <<"fstrim", "">>, <<"mount -o remount,ro", "">>,
          <<"xfs_freeze -f", "">>, <<"xfs_freeze -u", "">>,
          <<"fstrim", "">>, <<"mount -o remount,ro", "">>,
          <<"xfs_freeze -f", "">>, <<"xfs_freeze -u", "">> >>
OrderedOps ==
    {"ostree admin init-fs", "ostree config set", "ostree admin os-init", "lsm_label",
     "sysroot.load", "deploy", "append", "atomic_replace_with", "install_via_bootupd",
     "write_ignition", "enable_firstboot", "chattr +i", "fstrim",
     "mount -o remount,ro", "xfs_freeze -f", "xfs_freeze -u"}
IsOrderedStep(c) == c.op \in OrderedOps
\* the calls since the target was prepared
TargetPrepared ==
    {i \in DOMAIN trace :
        trace[i].op \in {"install_create_rootfs",
                         "install_to_filesystem: target validated"}}
StepsTaken ==
    IF TargetPrepared = {} THEN <<>>
    ELSE LET first == CHOOSE i \in TargetPrepared : TRUE
         IN  SelectSeq(SubSeq(trace, first + 1, Len(trace)), IsOrderedStep)

\* C29: the steps taken after the preparation of the target are the first
\* ones of: repository layout, sysroot.bootloader none, sysroot.readonly
\* true, stateroot, labelling, sysroot load, deploy, sysroot reload, fstab,
\* aleph, bootloader, the Ignition payload if any, the immutable bit, the
\* finalization of boot and of root; all but the last taken have succeeded;
\* and when the immutable bit is set or a filesystem is remounted read-only,
\* the fstab line, the aleph file and the bootloader are there.
StepsRunInStrictOrder ==
    /\ Cardinality(TargetPrepared) <= 1
    /\ TargetPrepared # {}
         => LET order == StepOrder(ost.ignition_file)
                taken == StepsTaken
            IN  /\ Len(taken) <= Len(order)
                /\ \A k \in DOMAIN taken :
                      /\ taken[k].op = order[k][1]
                      /\ order[k][2] # "" => taken[k].arg = order[k][2]
                      /\ k < Len(taken) => taken[k].ok
    /\ TargetPrepared = {}
         => CallsOf(OrderedOps \ {"lsm_label"}) = {}
    /\ CallsOf({"chattr +i", "mount -o remount,ro"}) # {}
         => /\ ost.fstab.some
            /\ ost.aleph_file.some
            /\ ost.bootupd_uuid.some
            /\ \A op \in {"append", "atomic_replace_with", "install_via_bootupd"} :
                  \E i \in CallsOf({op}) :
                      /\ trace[i].ok
                      /\ \A j \in CallsOf({"chattr +i", "mount -o remount,ro"}) : i < j

\* the run with an Ignition payload has taken all 22 steps
AllStepsTakenWithIgnition ==
    /\ ost.ignition_file
    /\ Len(StepsTaken) = 22
    /\ StepsTaken[22].ok

\* ---- the provisioner's options
\* C30: when install_create_rootfs fails because the root size does not
\* parse, because the device is not under /dev/, or because the block setup
\* is tpm2-luks, neither wipefs nor sgdisk has been run.
ProvisionerValidatesBeforeDestroying ==
    (pc = "exit"
       /\ err.msg \in {"Creating rootfs: Parsing root size",
                       "Creating rootfs: Absolute device path in /dev/ required",
                       "Creating rootfs: tpm2-luks is not implemented yet"})
    => CallsOf({"wipefs", "sgdisk"}) = {}

\* C30 as it holds: the options are checked in the course of the sequence.
\* When install_create_rootfs fails because the device is not under /dev/ or
\* the root size does not parse, sgdisk has not been run and nothing has
\* been formatted, and wipefs has been run, on every partition and on the
\* device, exactly when the wipe was asked for; when it fails because the
\* block setup is tpm2-luks, sgdisk has run and nothing has been formatted.
ProvisionerChecksOptionsInSequence ==
    /\ (pc = "exit"
          /\ err.msg \in {"Creating rootfs: Parsing root size",
                          "Creating rootfs: Absolute device path in /dev/ required"})
         => /\ CallsOf({"sgdisk", "reread_partition_table", "mkfs", "mkfs.fat"}) = {}
            /\ blk.wipe
                 => /\ Calls("wipefs", "/dev/vda") # {}
                    /\ Cardinality(CallsOf({"wipefs"})) = Len(blk.children) + 1
            /\ ~blk.wipe => (CallsOf({"wipefs"}) = {} /\ blk.children = <<>>)
            /\ \A i \in DOMAIN trace : trace[i].ok
    /\ (pc = "exit" /\ err.msg = "Creating rootfs: tpm2-luks is not implemented yet")
         => /\ Cardinality(CallsOf({"sgdisk"})) = 1
            /\ CallsOf({"mkfs", "mkfs.fat"}) = {}
            /\ \A i \in DOMAIN trace : trace[i].ok

\* tpm2-luks was refused on a disk that had no partitions and has some now
Tpm2LuksRefusedAfterPartitioning ==
    /\ pc = "exit"
    /\ err.msg = "Creating rootfs: tpm2-luks is not implemented yet"
    /\ ~blk.wipe
    /\ CallsOf({"sgdisk"}) # {}

\* ---- the partitioning request
\* the partitions the sgdisk command asks for: what follows each -n
NewPartitions ==
    LET at == {i \in 1..(Len(blk.sgdisk) - 1) : blk.sgdisk[i] = "-n"}
        nth(k) == CHOOSE i \in at : Cardinality({j \in at : j < i}) = k - 1
    IN  [k \in 1..Cardinality(at) |-> blk.sgdisk[nth(k) + 1]]

\* C31: sgdisk is asked for partition 1, 2 (EFI), 3 (boot) and 4 (root) in
\* that order, each but the root with its size relative to its start; the
\* root with +S MiB relative to its start when a root size of S MiB is
\* configured, and with all the remaining space when none is.
RootPartitionSizedOrRemaining ==
    blk.sgdisk # <<>>
    => /\ Len(NewPartitions) = 4
       /\ NewPartitions[1] = "1:0:+1M"
       /\ NewPartitions[2] = "2:0:+512M"
       /\ NewPartitions[3] = "3:0:+510M"
       /\ blk.root_size = Some(10240) => NewPartitions[4] = "4:0:+10240M"
       /\ blk.root_size = None => NewPartitions[4] = "4:0:0"

\* ---- the boot filesystem, named once
\* the last line of the deployment's etc/fstab
LastFstabLine == ost.fstab.v[Len(ost.fstab.v)]
\* the bootloader installer has been invoked
BootloaderInvoked == CallsOf({"install_via_bootupd"}) # {}

\* C32: the third kernel argument of every RootSetup, whichever entry path
\* built it, is boot= followed by the source of its boot MountSpec; and when
\* the bootloader installer is invoked, the UUID it is given is what follows
\* uuid= (in any letter case) in that source, and the line written for /boot
\* in etc/fstab starts with that same source.
BootNamedAlikeEverywhere ==
    /\ rootfs.kargs # <<>>
         => /\ Len(rootfs.kargs) >= 3
            /\ rootfs.kargs[3] = <<"b", "o", "o", "t", "=">> \o rootfs.boot.source
    /\ BootloaderInvoked
         => /\ ost.bootupd_uuid.some
            /\ \E key \in UuidSpellings :
                 rootfs.boot.source = key \o <<"=">> \o ost.bootupd_uuid.v
            /\ ost.fstab.some
            /\ LastFstabLine = BootFstabLine(rootfs.boot.source)

\* install-to-filesystem with --boot-mount-spec uuid=c: the bootloader
\* installer was given c, not the UUID found on the mounted /boot
BootloaderGivenUuidOfBootMountSpec ==
    /\ entry = "install_to_filesystem"
    /\ BootloaderInvoked
    /\ rootfs.boot.source = <<"u", "u", "i", "d", "=", "c">>
    /\ ost.bootupd_uuid = Some(<<"c">>)
    /\ rootfs.kargs[3] = <<"b", "o", "o", "t", "=", "u", "u", "i", "d", "=", "c">>

====
